---- MODULE Spec2Model ----
(***************************************************************************)
(* The generate -> validate -> execute -> revise loop of                   *)
(* agentic_paper/agent.py (solve_question_with_agent) together with the    *)
(* executor agentic_paper/execution/runner.py (run_generated_code).        *)
(*                                                                         *)
(* Spec is that loop; SpecThreads is two inline executor calls in the      *)
(* threads of one process; SpecParser and SpecValidator apply              *)
(* parse_answer_from_stdout and validate_code to bounded texts.            *)
(* SpecModes runs the loop of either controller (agent.py or               *)
(* academy_agent.py) under every setting of use_isolated_env and env_tool; *)
(* SpecMetrics, SpecHelpers and SpecPlots apply _normalize_metric_names,   *)
(* the helper-usage check and the artifact check to bounded inputs;        *)
(* SpecDirs is two calls of create_experiment_dirs under one clock;        *)
(* SpecInline is the inline executor on a program of top-level statements. *)
(*                                                                         *)
(* In Spec a source text is abstracted to the attributes the controller    *)
(* and the executor read from it:                                          *)
(*   bad    - validate_code finds a forbidden module, call or code fence    *)
(*   marker - the text matches the print('Answer: pattern                   *)
(*   defs   - the text defines the function f (_FUNC_PATTERN matches)       *)
(*   calls  - a non-definition line of the text contains a call site f(    *)
(*   plot   - the text contains the plot file name the plan declares       *)
(*   beh    - what the text does when it is executed                       *)
(*   empty  - the text is the empty string                                  *)
(***************************************************************************)
EXTENDS Integers, Sequences, FiniteSets, TLC

\* ------------------------------------------------------------------ bounds
\* Largest configured retry budget (AgentConfig.max_retries) explored.
MaxRetries == 2
\* The retry budgets explored run from -MinRetriesBelowZero to MaxRetries.
MinRetriesBelowZero == 1

RetryBudgets == (0 - MinRetriesBelowZero)..MaxRetries

\* ------------------------------------------------------------------ values
None == "None"

Behaviours == {"ok", "raise", "exit"}

Text(bad, marker, defs, calls, plot, beh) ==
    [empty |-> FALSE, bad |-> bad, marker |-> marker, defs |-> defs,
     calls |-> calls, plot |-> plot, beh |-> beh]

\* code_by_file.get(name, ""): the empty string.
EmptyText ==
    [empty |-> TRUE, bad |-> FALSE, marker |-> FALSE, defs |-> FALSE,
     calls |-> FALSE, plot |-> FALSE, beh |-> "ok"]

\* The texts generation may return for the entrypoint.
GoodEntry     == Text(FALSE, TRUE, FALSE, TRUE, TRUE, "ok")
EntryTexts ==
    { GoodEntry,
      Text(TRUE,  TRUE,  FALSE, TRUE,  TRUE,  "ok"),     \* forbidden import
      Text(FALSE, FALSE, FALSE, TRUE,  TRUE,  "ok"),     \* no answer marker
      Text(FALSE, TRUE,  TRUE,  FALSE, TRUE,  "ok"),     \* defines f, never calls it
      Text(FALSE, TRUE,  FALSE, TRUE,  FALSE, "ok"),     \* plot name missing
      Text(FALSE, TRUE,  FALSE, TRUE,  TRUE,  "raise"),  \* program raises
      Text(FALSE, TRUE,  FALSE, TRUE,  TRUE,  "exit") }  \* program calls sys.exit

HelperTexts ==
    { Text(FALSE, FALSE, TRUE,  FALSE, FALSE, "ok"),     \* defines f
      Text(FALSE, FALSE, FALSE, FALSE, TRUE,  "ok"),     \* constants only, names the plot
      Text(TRUE,  FALSE, TRUE,  FALSE, FALSE, "ok") }    \* defines f, forbidden import

EnvTexts == { Text(FALSE, FALSE, FALSE, FALSE, FALSE, "ok") }

File(name, role) == [name |-> name, role |-> role]

Plan(files, experiments) == [files |-> files, experiments |-> experiments]

\* project_plan: its "files" (name and role, in declaration order) and whether
\* its "experiments" are absent ("none"), declare no plot ("noplots") or
\* declare one plot file name ("plot"). plan_project returns main.py with
\* environment.yaml; the controller reads the files and roles of whatever plan
\* it is given, and the other plans take it through lines 187-196 and the
\* helper check.
Plans ==
    { Plan(<< >>, "none"),
      Plan(<< File("main.py", "entrypoint") >>, "plot"),
      Plan(<< File("main.py", "entrypoint"), File("environment.yaml", "env") >>, "noplots"),
      Plan(<< File("main.py", "entrypoint"), File("helper.py", "helper") >>, "plot"),
      Plan(<< File("helper.py", "helper"), File("main.py", "helper") >>, "none") }

RECURSIVE SeqToSet(_)
SeqToSet(s) == IF s = << >> THEN {} ELSE {Head(s)} \cup SeqToSet(Tail(s))

FileNames(plan) == { f.name : f \in SeqToSet(plan.files) }

\* The texts generation may give the file called name.
TextsFor(name) ==
    IF name = "main.py" THEN EntryTexts
    ELSE IF name = "helper.py" THEN HelperTexts
    ELSE EnvTexts

\* The mappings file name -> text generation may return for a plan: every
\* declared file, or every declared file but the environment manifest.
CodeMaps(plan) ==
    UNION { [ D -> UNION { TextsFor(n) : n \in D } ] :
            D \in { FileNames(plan), FileNames(plan) \ {"environment.yaml"} } }

WellTyped(m) == \A n \in DOMAIN m : m[n] \in TextsFor(n)

\* What generate_project_code hands to the controller: the shape of the value
\* ("structured": a mapping with the key code_by_file, "plain": a mapping file
\* name -> text, "tuple": a non-empty tuple whose first element is the mapping,
\* "empty_tuple"), the mapping and the entrypoint a structured result names.
GenResult(shape, code, entrypoint) ==
    [shape |-> shape, code |-> code, entrypoint |-> entrypoint]

GenResults(plan) ==
    { GenResult("plain", m, None) : m \in { c \in CodeMaps(plan) : WellTyped(c) } }
    \cup { GenResult(sh[1], [n \in FileNames(plan) |-> IF n = "main.py" THEN GoodEntry
                                                      ELSE CHOOSE t \in TextsFor(n) : TRUE],
                     sh[2]) :
           sh \in { <<"structured", "main.py">>, <<"structured", None>>,
                    <<"tuple", None>>, <<"empty_tuple", None>> } }

\* ------------------------------------------------------------------ results
\* RunResult.error: None, or a string; kind names which string it is and
\* issues carries the validation issues a ValidationError string renders.
Error(kind, issues) == [kind |-> kind, issues |-> issues]
NoIssues == << >>
NoError == Error(None, NoIssues)

\* An error string that quotes a text: f"...{create_proc.stderr}".
ErrorWith(kind, quoted) == [kind |-> kind, issues |-> NoIssues, quoted |-> quoted]

\* The result dict the controller builds before the loop.
Placeholder ==
    [success |-> FALSE, stdout |-> "", locals |-> "{}", error |-> NoError]

\* The result dict the controller builds when validation failed.
SynthesizedResult(issues) ==
    [success |-> FALSE, stdout |-> "", locals |-> "{}",
     error |-> Error("ValidationError", issues)]

\* The result dicts of run_generated_code's isolated path.
IsolatedResult(success, stdout, stderr, error) ==
    [success |-> success, stdout |-> stdout, stderr |-> stderr, locals |-> "[]",
     error |-> error, experiment_dir |-> "work_path"]

\* The result dict of run_generated_code's inline path.
InlineResult(success, stdout, error) ==
    [success |-> success, stdout |-> stdout, locals |-> "locals_list",
     error |-> error, experiment_dir |-> "work_path"]

\* ------------------------------------------------------------------ validation
\* dict.get(name, ""): the text of a file, the empty text when it has none.
Get(cbf, name) == IF name \in DOMAIN cbf THEN cbf[name] ELSE EmptyText

\* validate_code: the ordered issue list of one text (module, call and fence
\* issues, then the marker issue); is_valid is that the list is empty.
validate_code(code, require_answer_print) ==
    (IF code.bad THEN << "static" >> ELSE << >>)
    \o (IF require_answer_print /\ ~code.marker THEN << "marker" >> ELSE << >>)

\* issues_by_file.setdefault(name, []).extend(issues)
Extend(ibf, name, issues) ==
    [n \in DOMAIN ibf \cup {name} |->
        IF n = name THEN (IF n \in DOMAIN ibf THEN ibf[n] ELSE << >>) \o issues
        ELSE ibf[n]]

\* The per-file validation loop: the verdict and issues after the files of
\* the plan from position i on have been validated.
RECURSIVE PerFile(_, _, _, _)
PerFile(files, cbf, i, acc) ==
    IF i > Len(files) THEN acc
    ELSE LET f == files[i]
             issues == validate_code(Get(cbf, f.name), f.role = "entrypoint")
         IN PerFile(files, cbf, i + 1,
                    IF issues = << >> THEN acc
                    ELSE [valid |-> FALSE,
                          issues |-> Extend(acc.issues, f.name, issues)])

\* _get_helper_function_names: is some function defined in a declared file
\* other than the entrypoint?
HelperNamesExist(plan, cbf, entry) ==
    \E f \in SeqToSet(plan.files) :
        /\ ~(entry /= None /\ f.name = entry)
        /\ Get(cbf, f.name).defs

\* _entrypoint_uses_helpers, given that helper names exist.
EntrypointUsesHelpers(code) == code.calls

\* The helper-usage check fires.
HelperCheckFires(plan, cbf, entry) ==
    /\ HelperNamesExist(plan, cbf, entry)
    /\ entry /= None
    /\ ~EntrypointUsesHelpers(Get(cbf, entry))

\* _entrypoint_generates_required_plots: a declared plot file name occurs in
\* no text of the combined project code (the env file is left out of it).
MissingPlots(plan, cbf) ==
    /\ plan.experiments = "plot"
    /\ ~\E f \in SeqToSet(plan.files) : f.role /= "env" /\ Get(cbf, f.name).plot

\* What happens when spec_critic asks the model: building the prompt raises
\* ("critic_raises"), call_llm raises ("llm_raises"), the content holds no
\* JSON object ("text"), or it holds one ("object"), whose "ok" is true or
\* false and whose "issues_by_file" is a mapping from file names to lists
\* ("lists", empty or not), a mapping to values that are neither lists nor
\* strings ("other_values") or not a mapping at all ("not_a_mapping").
Answer(kind, ok, shape, issues) ==
    [kind |-> kind, ok |-> ok, shape |-> shape, issues |-> issues]

SpecIssues == [n \in {"main.py"} |-> << "spec" >>]

NotAsked == Answer("not_asked", TRUE, "lists", NoIssues)

LLMAnswers(plan) ==
    IF plan.experiments = "none"
    THEN { NotAsked }
    ELSE { Answer("critic_raises", TRUE, "lists", NoIssues),
           Answer("llm_raises", TRUE, "lists", NoIssues),
           Answer("text", TRUE, "lists", NoIssues),
           Answer("object", TRUE, "lists", NoIssues),
           Answer("object", FALSE, "lists", NoIssues),
           Answer("object", FALSE, "lists", SpecIssues),
           Answer("object", FALSE, "other_values", SpecIssues),
           Answer("object", FALSE, "not_a_mapping", SpecIssues) }

\* _parse_llm_json: the object in the content, or ok = true with no issues
\* when the content holds none.
parse_llm_json(answer) ==
    IF answer.kind = "object" THEN answer
    ELSE Answer("object", TRUE, "lists", NoIssues)

\* spec_critic.py 153-163: issues_by_file becomes a mapping from file names
\* to lists of strings; what is not a mapping, and the values that are
\* neither lists nor strings, are dropped.
NormIssues(parsed) ==
    IF parsed.shape = "lists" THEN parsed.issues ELSE NoIssues

\* What the call of spec_critic gives the controller: an exception, or ok
\* and the issues by file.
CriticReply(raised, ok, issues) == [raised |-> raised, ok |-> ok, issues |-> issues]

\* spec_critic: ok = true and no issues without asking the model when the
\* plan has no experiments, and when call_llm raises; otherwise "ok" of the
\* parsed answer with the normalised issues.
spec_critic(plan, answer) ==
    IF plan.experiments = "none" THEN CriticReply(FALSE, TRUE, NoIssues)
    ELSE IF answer.kind = "critic_raises" THEN CriticReply(TRUE, TRUE, NoIssues)
    ELSE IF answer.kind = "llm_raises" THEN CriticReply(FALSE, TRUE, NoIssues)
    ELSE CriticReply(FALSE, parse_llm_json(answer).ok,
                     NormIssues(parse_llm_json(answer)))

\* The controller's try/except around the critic, lines 215-224 of agent.py.
CriticVerdict(reply) ==
    IF reply.raised THEN [ok |-> TRUE, issues |-> NoIssues]
    ELSE [ok |-> reply.ok, issues |-> reply.issues]

\* A merged verdict that is read off the merged issues: valid when none.
ValidationByIssues(plan, cbf, entry, reply) ==
    LET critic == CriticVerdict(reply)
        files == PerFile(plan.files, cbf, 1, [valid |-> TRUE, issues |-> critic.issues])
        helper == IF HelperCheckFires(plan, cbf, entry)
                  THEN Extend(files.issues, entry, << "helper" >>)
                  ELSE files.issues
        merged == IF MissingPlots(plan, cbf)
                  THEN Extend(helper, IF entry /= None THEN entry ELSE "main.py",
                              << "plots" >>)
                  ELSE helper
    IN [valid |-> DOMAIN merged = {}, issues |-> merged]

\* The merged verdict of one attempt, lines 226-279 of agent.py.
Validation(plan, cbf, entry, reply) ==
    LET critic == CriticVerdict(reply)
        start == [valid |-> critic.ok, issues |-> critic.issues]
        files == PerFile(plan.files, cbf, 1, start)
        helper == IF HelperCheckFires(plan, cbf, entry)
                  THEN [valid |-> FALSE,
                        issues |-> Extend(files.issues, entry, << "helper" >>)]
                  ELSE files
    IN IF MissingPlots(plan, cbf)
       THEN [valid |-> FALSE,
             issues |-> Extend(helper.issues,
                               IF entry /= None THEN entry ELSE "main.py",
                               << "plots" >>)]
       ELSE helper

\* A combination that leaves no declared file out.
RECURSIVE combine_every_file(_, _)
combine_every_file(files, cbf) ==
    IF files = << >> THEN << >>
    ELSE << [name |-> Head(files).name, code |-> Get(cbf, Head(files).name)] >>
         \o combine_every_file(Tail(files), cbf)

\* _combine_project_code: the texts of the declared files that are not the
\* env file, in declaration order (a file absent from the mapping gives "").
RECURSIVE combine_project_code(_, _)
combine_project_code(files, cbf) ==
    IF files = << >> THEN << >>
    ELSE (IF Head(files).role = "env" THEN << >>
          ELSE << [name |-> Head(files).name, code |-> Get(cbf, Head(files).name)] >>)
         \o combine_project_code(Tail(files), cbf)

\* What the combined script does when it runs: its parts run top to bottom,
\* so it does what the first part that does not run through does.
RECURSIVE Behaviour(_)
Behaviour(combined) ==
    IF combined = << >> THEN "ok"
    ELSE IF Head(combined).code.beh /= "ok" THEN Head(combined).code.beh
    ELSE Behaviour(Tail(combined))

\* ------------------------------------------------------------------ state
VARIABLES
    implementation,      \* which controller runs: agent.py's or academy_agent.py's
    config_max_retries,  \* AgentConfig.max_retries
    config_use_isolated_env,  \* AgentConfig.use_isolated_env
    config_env_tool,     \* AgentConfig.env_tool
    project_plan,        \* what plan_project returned
    gen_result,          \* what generate_project_code returned
    pc,                  \* where solve_question_with_agent is
    code_by_file,
    entrypoint_name,
    total_attempts,
    attempt_idx,
    all_valid,
    validation_issues_by_file,
    combined_code,       \* combined_code_for_validation of this attempt
    final_run_result,
    attempts_meta,
    exc,                 \* the exception that left solve_question_with_agent
    downstream,          \* the run_result handed to parsing, critic, persistence
    cwd,                 \* the working directory of the process
    manifest_on_disk,    \* work_dir/environment.yaml exists
    env_at_prefix,       \* an environment exists at work_dir/env
    pending,             \* inline path: what leaves the try block
    critic_answer,       \* what asking the model gave spec_critic in this attempt
    cwd_before,          \* inline path: the directory os.getcwd() gave
    program_cwd,         \* inline path: the directory the program left behind
    create_returncode,   \* isolated path: << create_proc.returncode >>, << >> before
    validations,         \* how many validation rounds have run
    executions,          \* how many times run_generated_code was called
    revisions,           \* how many times revise_code was called
    call_args            \* << the arguments of this attempt's executor call >>

agent_vars ==
    << config_max_retries, project_plan, gen_result, pc, code_by_file,
       entrypoint_name, total_attempts, attempt_idx, all_valid,
       validation_issues_by_file, combined_code, final_run_result,
       attempts_meta, exc,
       downstream, cwd, manifest_on_disk, env_at_prefix, pending,
       critic_answer, cwd_before, program_cwd, create_returncode,
       validations, executions, revisions,
       implementation, config_use_isolated_env, config_env_tool, call_args >>

\* Two inline calls of run_generated_code in the threads of one process.
VARIABLES
    process_cwd,         \* the working directory of the process
    sys_stdout,          \* what sys.stdout is bound to
    run_pc,              \* where each call is
    run_cwd_before,      \* each call's cwd_before
    run_old_target,      \* what each call's redirect_stdout will restore
    run_steps,           \* how many steps each call's program has taken
    stdout_buf           \* each call's stdout_buf: whose output it holds

threads == << process_cwd, sys_stdout, run_pc, run_cwd_before, run_old_target,
             run_steps, stdout_buf >>

\* A call of parse_answer_from_stdout.
VARIABLES
    parser_stdout,       \* the stdout text: characters grouped into tokens
    parser_result        \* << the dict returned >>, << >> before the call

parser == << parser_stdout, parser_result >>

\* A call of validate_code.
VARIABLES
    rule_config,         \* the AgentConfig: its lists and its flag
    source_code,         \* the source text: its statements, one after the other
    answer_flag,         \* the argument require_answer_print: << >> for None
    verdict              \* << the pair returned >>, << >> before the call

validator == << rule_config, source_code, answer_flag, verdict >>

\* A call of one of the pure functions of the planner and the controller.
VARIABLES
    fn_args,             \* the arguments of the call
    fn_value             \* << what the call returned >>, << >> before the call

pure == << fn_args, fn_value >>

\* Calls of create_experiment_dirs under one wall clock.
VARIABLES
    clock,               \* datetime.now(), in whole seconds
    questions,           \* the question of each run
    dirs_on_disk,        \* the directories that exist
    paths                \* each run's << dict returned >>, << >> before its call

dirs == << clock, questions, dirs_on_disk, paths >>

\* The inline path of run_generated_code on a program of its own.
VARIABLES
    inline_code,         \* the source: its top-level statements
    inline_pc,           \* where the call is
    inline_next,         \* the top-level statement exec is at
    run_globals,         \* what run_globals binds "__name__" and "main" to
    main_runs,           \* how many times the body of main has run
    inline_traceback     \* an exception reached the except clause

inline == << inline_code, inline_pc, inline_next, run_globals, main_runs,
            inline_traceback >>

\* The variables of the specifications further down.
rest == << pure, dirs, inline >>
others == << threads, parser, validator, rest >>

vars == << agent_vars, others >>

inputs == << implementation, config_max_retries, config_use_isolated_env,
             config_env_tool, project_plan, gen_result >>
controller == << code_by_file, entrypoint_name, total_attempts, attempt_idx,
                 all_valid, validation_issues_by_file, combined_code,
                 final_run_result, attempts_meta >>
disk == << manifest_on_disk, env_at_prefix >>
counters == << validations, executions, revisions >>
call_locals == << cwd_before, program_cwd, create_returncode >>

\* The directory the process was started in.
LaunchDir == "launch_dir"

Runs == {"run_a", "run_b"}

\* No call of run_generated_code is running in a thread.
ThreadsIdle ==
    /\ process_cwd = LaunchDir
    /\ sys_stdout = "terminal"
    /\ run_pc = [r \in Runs |-> "off"]
    /\ run_cwd_before = [r \in Runs |-> None]
    /\ run_old_target = [r \in Runs |-> None]
    /\ run_steps = [r \in Runs |-> 0]
    /\ stdout_buf = [r \in Runs |-> {}]

\* parse_answer_from_stdout is not being called.
ParserIdle ==
    /\ parser_stdout = << >>
    /\ parser_result = << >>

\* validate_code is not being called on a text of its own.
ValidatorIdle ==
    /\ rule_config = [forbidden_modules |-> << >>, forbidden_calls |-> << >>,
                      require_answer_print |-> TRUE]
    /\ source_code = << >>
    /\ answer_flag = << >>
    /\ verdict = << >>

\* None of the pure functions is being called.
PureIdle ==
    /\ fn_args = << >>
    /\ fn_value = << >>

\* create_experiment_dirs is not being called.
DirsIdle ==
    /\ clock = 0
    /\ questions = [r \in Runs |-> << >>]
    /\ dirs_on_disk = {}
    /\ paths = [r \in Runs |-> << >>]

\* No program of its own is being run inline.
InlineIdle ==
    /\ inline_code = << >>
    /\ inline_pc = "off"
    /\ inline_next = 1
    /\ run_globals = [name |-> "__main__", main |-> "unbound"]
    /\ main_runs = 0
    /\ inline_traceback = FALSE

RestIdle == PureIdle /\ DirsIdle /\ InlineIdle

OthersIdle == ThreadsIdle /\ ParserIdle /\ ValidatorIdle /\ RestIdle

Init ==
    /\ implementation = "agent"
    /\ config_max_retries \in RetryBudgets
    /\ config_use_isolated_env = TRUE
    /\ config_env_tool = "conda"
    /\ call_args = << >>
    /\ project_plan \in Plans
    /\ gen_result \in GenResults(project_plan)
    /\ pc = "start"
    /\ code_by_file = << >>
    /\ entrypoint_name = None
    /\ total_attempts = 0
    /\ attempt_idx = 0
    /\ all_valid = FALSE
    /\ validation_issues_by_file = NoIssues
    /\ combined_code = << >>
    /\ final_run_result = Placeholder
    /\ attempts_meta = << >>
    /\ exc = None
    /\ downstream = None
    /\ cwd = LaunchDir
    /\ manifest_on_disk = FALSE
    /\ env_at_prefix = FALSE
    /\ pending = None
    /\ critic_answer = NotAsked
    /\ cwd_before = None
    /\ program_cwd = None
    /\ create_returncode = << >>
    /\ validations = 0
    /\ executions = 0
    /\ revisions = 0
    /\ OthersIdle

\* ------------------------------------------------------------------ set-up
Max(a, b) == IF a >= b THEN a ELSE b

\* A budget that forgets the initial attempt.
TotalAttemptsRetriesOnly(b) == Max(b, 0)

\* total_attempts = 1 + max(getattr(config, "max_retries", 0), 0)
TotalAttempts(b) == 1 + Max(b, 0)

\* Lines 187-196: the entrypoint the plan gives when codegen named none: the
\* first file with role entrypoint, else the first file, else None.
RECURSIVE FirstEntrypoint(_)
FirstEntrypoint(files) ==
    IF files = << >> THEN None
    ELSE IF Head(files).role = "entrypoint" THEN Head(files).name
    ELSE FirstEntrypoint(Tail(files))

InferEntrypoint(files) ==
    IF FirstEntrypoint(files) /= None THEN FirstEntrypoint(files)
    ELSE IF files /= << >> THEN files[1].name
    ELSE None

\* for attempt_idx in range(total_attempts): the body runs for the next index
\* when there is one, and the loop is left when there is none.
LoopOrExit(next_idx, total) == IF next_idx < total THEN "loop" ELSE "stopped"

\* academy_agent.py 406-412: the first declared file, unless a file has the
\* role entrypoint.
AcademyEntrypoint(files) ==
    IF FirstEntrypoint(files) /= None THEN FirstEntrypoint(files)
    ELSE files[1].name

\* What refuses the inputs before the loop: agent.py an empty tuple or list
\* from generation (line 183), academy_agent.py a plan that declares no file
\* (line 408 takes element 0 of its list).
SetupFault ==
    IF implementation = "agent" /\ gen_result.shape = "empty_tuple" THEN "ValueError"
    ELSE IF implementation = "academy" /\ project_plan.files = << >> THEN "IndexError"
    ELSE None

\* Lines 170-206: normalise the generation result, settle the entrypoint and
\* the number of attempts.
Setup ==
    /\ pc = "start"
    /\ SetupFault = None
    /\ code_by_file' = gen_result.code
    /\ entrypoint_name' =
         IF implementation = "academy" THEN AcademyEntrypoint(project_plan.files)
         ELSE IF gen_result.shape = "structured" /\ gen_result.entrypoint /= None
         THEN gen_result.entrypoint
         ELSE InferEntrypoint(project_plan.files)
    /\ total_attempts' = TotalAttempts(config_max_retries)
    /\ pc' = LoopOrExit(0, TotalAttempts(config_max_retries))
    /\ UNCHANGED << others, call_args, critic_answer, call_locals, inputs, attempt_idx, all_valid, validation_issues_by_file,
                    combined_code, final_run_result, attempts_meta, exc, downstream, cwd, disk,
                    pending, counters >>

\* Line 183: an empty tuple or list is refused before the loop.
SetupRaises ==
    /\ pc = "start"
    /\ SetupFault /= None
    /\ exc' = SetupFault
    /\ pc' = "raised"
    /\ UNCHANGED << others, call_args, critic_answer, call_locals, inputs, controller, downstream, cwd, disk, pending, counters >>

\* ------------------------------------------------------------------ the loop
\* env_code = code_by_file.get("environment.yaml"); if env_code: ...
HasEnvCode(cbf) ==
    "environment.yaml" \in DOMAIN cbf /\ ~cbf["environment.yaml"].empty

\* Lines 210-286: combine the files, ask the critic, validate every file, run
\* the helper-usage and plot checks, write the manifest when generation gave
\* one. Writing the file may fail, and nothing around it catches that. The
\* locals of the executor call of the iteration before are gone.
Validate ==
    /\ pc = "loop"
    /\ attempt_idx < total_attempts
    /\ \E answer \in LLMAnswers(project_plan),
          write_ok \in (IF HasEnvCode(code_by_file) THEN BOOLEAN ELSE {TRUE}) :
         LET v == Validation(project_plan, code_by_file, entrypoint_name,
                             spec_critic(project_plan, answer))
             \* agent.py writes the manifest after the validation (281-286),
             \* academy_agent.py before it (427-431)
             validated == write_ok \/ implementation = "agent"
         IN /\ combined_code' = combine_project_code(project_plan.files, code_by_file)
            /\ IF validated
               THEN /\ critic_answer' = answer
                    /\ all_valid' = v.valid
                    /\ validation_issues_by_file' = v.issues
                    /\ validations' = validations + 1
               ELSE UNCHANGED << critic_answer, all_valid,
                                 validation_issues_by_file, validations >>
            /\ IF write_ok
               THEN /\ manifest_on_disk' = (manifest_on_disk \/ HasEnvCode(code_by_file))
                    /\ pc' = "validated"
                    /\ exc' = exc
               ELSE /\ manifest_on_disk' = manifest_on_disk
                    /\ pc' = "raised"
                    /\ exc' = "OSError"
    /\ cwd_before' = None
    /\ program_cwd' = None
    /\ create_returncode' = << >>
    /\ call_args' = << >>
    /\ UNCHANGED << others, inputs, code_by_file, entrypoint_name, total_attempts,
                    attempt_idx, final_run_result, attempts_meta, downstream,
                    cwd, env_at_prefix, pending, executions, revisions >>

\* An executor call that does not look at the verdict.
ShouldExecuteAlways(valid) == TRUE

\* Line 289: if all_valid.
ShouldExecute(valid) == valid

\* The arguments of the call at lines 291-297.
CallEnvToolOf(impl) == IF impl = "academy" THEN config_env_tool ELSE "conda"
CallUseIsolatedEnvOf(impl) == IF impl = "academy" THEN config_use_isolated_env ELSE TRUE

CallEnvTool == CallEnvToolOf(implementation)
CallUseIsolatedEnv == CallUseIsolatedEnvOf(implementation)

\* entrypoint_name or "main.py"
CallEntrypoint == IF entrypoint_name /= None THEN entrypoint_name ELSE "main.py"

ExecutorCall(code, entry, env_tool, use_isolated_env) ==
    [code |-> code, entrypoint_name |-> entry, env_tool |-> env_tool,
     use_isolated_env |-> use_isolated_env]

\* Lines 289-297 and runner.py 40-57: validation passed, so the executor is
\* called; it makes work_dir, writes the combined code to the entrypoint file
\* (either may fail, outside any try) and takes the isolated path when asked
\* to and the manifest exists, the inline path otherwise.
Execute ==
    /\ pc = "validated"
    /\ ShouldExecute(all_valid)
    /\ executions' = executions + 1
    /\ call_args' = << ExecutorCall(combined_code, CallEntrypoint, CallEnvTool,
                                    CallUseIsolatedEnv) >>
    /\ \E prepared \in BOOLEAN :
         IF prepared
         THEN /\ pc' = IF CallUseIsolatedEnv /\ manifest_on_disk
                       THEN "exec_provision" ELSE "exec_inline"
              /\ exc' = exc
         ELSE /\ pc' = "raised"
              /\ exc' = "OSError"
    /\ critic_answer' = NotAsked
    /\ cwd_before' = None
    /\ program_cwd' = None
    /\ create_returncode' = << >>
    /\ UNCHANGED << others, inputs, controller, downstream, cwd, disk, pending,
                    validations, revisions >>

\* Lines 298-305: validation failed, so the result is built in place.
SynthesizeFailure ==
    /\ pc = "validated"
    /\ ~ShouldExecute(all_valid)
    /\ final_run_result' = SynthesizedResult(validation_issues_by_file)
    /\ critic_answer' = NotAsked
    /\ pc' = "record"
    /\ UNCHANGED << others, call_args, call_locals, inputs, code_by_file, entrypoint_name, total_attempts,
                    attempt_idx, all_valid, validation_issues_by_file,
                    combined_code, attempts_meta, exc, downstream, cwd, disk,
                    pending, counters >>

\* A check of the create step that lets every exit code pass.
ProvisionFailedNever(returncode) == FALSE

\* runner.py 85: if create_proc.returncode != 0.
ProvisionFailed(returncode) == returncode /= 0

\* The exit code of the env tool: zero when it created the environment.
CreateReturncode(outcome) == IF outcome = "created" THEN 0 ELSE 1

\* runner.py 64-97 and 128-139: build the create command and run the env
\* tool. A tool other than conda and a tool that cannot be started raise
\* inside the try and are reported; a non-zero exit returns at once, with
\* what the tool wrote to its stderr in the error string. subprocess.run is
\* given no timeout, so it returns when the tool exits and not before.
Provision ==
    /\ pc = "exec_provision"
    /\ \E outcome \in (IF CallEnvTool = "conda"
                       THEN {"created", "nonzero", "oserror", "never_exits"}
                       ELSE {"unsupported"}) :
         IF outcome = "never_exits"
         THEN /\ pc' = "exec_waiting"
              /\ UNCHANGED << create_returncode, env_at_prefix, final_run_result >>
         ELSE IF outcome \in {"created", "nonzero"}
         THEN /\ create_returncode' = << CreateReturncode(outcome) >>
              /\ env_at_prefix' = (env_at_prefix \/ outcome = "created")
              /\ IF ProvisionFailed(CreateReturncode(outcome))
                 THEN /\ pc' = "record"
                      /\ final_run_result' =
                           IsolatedResult(FALSE, "create_stdout", "create_stderr",
                               ErrorWith("EnvironmentCreationFailed", "create_stderr"))
                 ELSE /\ pc' = "exec_run"
                      /\ final_run_result' = final_run_result
         ELSE /\ create_returncode' = create_returncode
              /\ env_at_prefix' = env_at_prefix
              /\ pc' = "record"
              /\ final_run_result' =
                   IsolatedResult(FALSE, "", "", Error("traceback", NoIssues))
    /\ UNCHANGED << others, call_args, critic_answer, cwd_before, program_cwd, inputs, code_by_file, entrypoint_name, total_attempts,
                    attempt_idx, all_valid, validation_issues_by_file,
                    combined_code, attempts_meta, exc, downstream, cwd,
                    manifest_on_disk, pending, counters >>

\* The exit codes of the interpreter for what the script does.
ExitCodes(beh) ==
    IF beh = "ok" THEN {0}
    ELSE IF beh = "raise" THEN {1}
    ELSE {0, 1}

\* runner.py 100-139: run the entrypoint file with the interpreter of the
\* environment; success is exit code zero; an interpreter that cannot be
\* started raises inside the try and is reported. subprocess.run is given
\* no timeout, so it returns when the script exits and not before.
RunIsolated ==
    /\ pc = "exec_run"
    /\ \E outcome \in {"exits", "not_started", "never_exits"} :
         IF outcome = "exits"
         THEN /\ \E rc \in ExitCodes(Behaviour(combined_code)) :
                   final_run_result' =
                     IF rc = 0
                     THEN IsolatedResult(TRUE, "out", "", NoError)
                     ELSE IsolatedResult(FALSE, "out", "err", Error("ScriptFailed", NoIssues))
              /\ pc' = "record"
         ELSE IF outcome = "not_started"
         THEN /\ final_run_result' =
                   IsolatedResult(FALSE, "", "", Error("traceback", NoIssues))
              /\ pc' = "record"
         ELSE /\ final_run_result' = final_run_result
              /\ pc' = "exec_waiting"
    /\ UNCHANGED << others, call_args, critic_answer, call_locals, inputs, code_by_file, entrypoint_name, total_attempts,
                    attempt_idx, all_valid, validation_issues_by_file,
                    combined_code, attempts_meta, exc, downstream, cwd, disk,
                    pending, counters >>

\* What leaves exec(code) and main() for what the script does: nothing, an
\* exception of class Exception, or SystemExit, which is a BaseException.
Raised(beh) ==
    IF beh = "ok" THEN None
    ELSE IF beh = "raise" THEN "Exception"
    ELSE "SystemExit"

\* The directories the executed program may leave the process in: work_dir,
\* which the executor changed into, or one the program changed into itself.
ProgramDirs == {"work_path", "program_dir"}

\* runner.py 152-163: remember the working directory, change into work_dir,
\* run the code and main().
InlineExec ==
    /\ pc = "exec_inline"
    /\ cwd_before' = cwd
    /\ \E dir \in ProgramDirs :
         /\ cwd' = dir
         /\ program_cwd' = dir
    /\ pending' = Raised(Behaviour(combined_code))
    /\ pc' = "exec_finally"
    /\ UNCHANGED << others, call_args, critic_answer, create_returncode, inputs, controller, exc, downstream,
                    disk, counters >>

\* A finally clause that leaves the working directory as it finds it.
CwdLeftAsIs(before, now) == now

\* runner.py 170: os.chdir(cwd_before).
RestoredCwd(before, now) == before

\* except Exception: what the handler at runner.py 166 catches.
Caught(raised) == raised = "Exception"

\* runner.py 165-182: the except clause, the finally clause and the return.
\* What the except clause does not catch leaves run_generated_code, and the
\* controller has no handler for it either.
InlineFinally ==
    /\ pc = "exec_finally"
    /\ cwd' = RestoredCwd(cwd_before, cwd)
    /\ pending' = None
    /\ IF pending = None
       THEN /\ final_run_result' = InlineResult(TRUE, "out", NoError)
            /\ pc' = "record"
            /\ exc' = exc
       ELSE IF Caught(pending)
       THEN /\ final_run_result' = InlineResult(FALSE, "out", Error("traceback", NoIssues))
            /\ pc' = "record"
            /\ exc' = exc
       ELSE /\ final_run_result' = final_run_result
            /\ pc' = "raised"
            /\ exc' = pending
    /\ UNCHANGED << others, call_args, critic_answer, call_locals, inputs, code_by_file, entrypoint_name, total_attempts,
                    attempt_idx, all_valid, validation_issues_by_file,
                    combined_code, attempts_meta, downstream, disk, counters >>

\* The dict appended at lines 307-314.
AttemptRecord(idx, result, issues) ==
    [attempt_index |-> idx, success |-> result.success, error |-> result.error,
     validation_issues |-> issues]

\* A record step that keeps only the newest record.
RecordOverwrites ==
    /\ pc = "record"
    /\ attempts_meta' =
         << AttemptRecord(attempt_idx, final_run_result, validation_issues_by_file) >>
    /\ pc' = "decide"
    /\ UNCHANGED << others, call_args, critic_answer, call_locals, inputs, code_by_file, entrypoint_name, total_attempts,
                    attempt_idx, all_valid, validation_issues_by_file,
                    combined_code, final_run_result, exc, downstream, cwd, disk,
                    pending, counters >>

\* Lines 307-314.
Record ==
    /\ pc = "record"
    /\ attempts_meta' = Append(attempts_meta,
         AttemptRecord(attempt_idx, final_run_result, validation_issues_by_file))
    /\ pc' = "decide"
    /\ UNCHANGED << others, call_args, critic_answer, call_locals, inputs, code_by_file, entrypoint_name, total_attempts,
                    attempt_idx, all_valid, validation_issues_by_file,
                    combined_code, final_run_result, exc, downstream, cwd, disk,
                    pending, counters >>

\* A decision that never takes the break at line 318.
SucceededNever(result, valid) == FALSE

\* Line 317.
Succeeded(result, valid) == result.success /\ valid

\* Line 321.
MayRevise(idx, total, entry) == idx < total - 1 /\ entry /= None

\* Lines 316-318: stop when the attempt succeeded and was valid.
StopSuccess ==
    /\ pc = "decide"
    /\ Succeeded(final_run_result, all_valid)
    /\ pc' = "stopped"
    /\ UNCHANGED << others, call_args, critic_answer, call_locals, inputs, controller, exc, downstream, cwd, disk, pending, counters >>

\* The texts a revision may return: a sound one, one without the answer
\* marker, one whose program raises and one whose program calls sys.exit.
RevisedTexts ==
    { GoodEntry,
      Text(FALSE, FALSE, FALSE, TRUE, TRUE, "ok"),
      Text(FALSE, TRUE,  FALSE, TRUE, TRUE, "raise"),
      Text(FALSE, TRUE,  FALSE, TRUE, TRUE, "exit") }

\* A revision that overwrites every file with the returned text.
ReplaceAll(cbf, name, text) == [n \in DOMAIN cbf \cup {name} |-> text]

\* code_by_file[entrypoint_name] = text
Replace(cbf, name, text) ==
    [n \in DOMAIN cbf \cup {name} |-> IF n = name THEN text ELSE cbf[n]]

\* Lines 321-333 and code_editor.py 5-51: ask for a revision of the entrypoint
\* and store it; the call of the model may raise, and nothing catches that.
Revise ==
    /\ pc = "decide"
    /\ ~Succeeded(final_run_result, all_valid)
    /\ MayRevise(attempt_idx, total_attempts, entrypoint_name)
    /\ revisions' = revisions + 1
    /\ \/ \E text \in RevisedTexts :
            /\ code_by_file' = Replace(code_by_file, entrypoint_name, text)
            /\ attempt_idx' = attempt_idx + 1
            /\ pc' = LoopOrExit(attempt_idx + 1, total_attempts)
            /\ exc' = exc
       \/ /\ pc' = "raised"
          /\ exc' = "LLMError"
          /\ UNCHANGED << code_by_file, attempt_idx >>
    /\ UNCHANGED << others, call_args, critic_answer, call_locals, inputs, entrypoint_name, total_attempts, all_valid,
                    validation_issues_by_file, combined_code, final_run_result,
                    attempts_meta, downstream, cwd, disk, pending, validations,
                    executions >>

\* Lines 334-335: no retry is left, or no entrypoint is known.
StopExhausted ==
    /\ pc = "decide"
    /\ ~Succeeded(final_run_result, all_valid)
    /\ ~MayRevise(attempt_idx, total_attempts, entrypoint_name)
    /\ pc' = "stopped"
    /\ UNCHANGED << others, call_args, critic_answer, call_locals, inputs, controller, exc, downstream, cwd, disk, pending, counters >>

\* Lines 337-476: the result of the loop goes to answer parsing, the
\* explanation, the critic, the writers and persistence, and is returned.
Downstream ==
    /\ pc = "stopped"
    /\ downstream' = final_run_result
    /\ pc' = "done"
    /\ UNCHANGED << others, call_args, critic_answer, call_locals, inputs, controller, exc, cwd, disk, pending, counters >>

Next ==
    \/ Setup
    \/ SetupRaises
    \/ Validate
    \/ Execute
    \/ SynthesizeFailure
    \/ Provision
    \/ RunIsolated
    \/ InlineExec
    \/ InlineFinally
    \/ Record
    \/ StopSuccess
    \/ Revise
    \/ StopExhausted
    \/ Downstream

Spec == Init /\ [][Next]_vars

\* Largest retry budget explored when the configuration varies.
MaxModeRetries == 1

\* The plans explored when the configuration varies: no file, and what
\* plan_project returns.
ModePlans ==
    { Plan(<< >>, "none"),
      Plan(<< File("main.py", "entrypoint"), File("environment.yaml", "env") >>, "noplots") }

\* Either controller, under every setting of use_isolated_env and env_tool,
\* on what generate_project_code returns: a mapping file name -> text.
ModesInit ==
    /\ implementation \in {"agent", "academy"}
    /\ config_max_retries \in 0..MaxModeRetries
    /\ config_use_isolated_env \in BOOLEAN
    /\ config_env_tool \in {"conda", "mamba"}
    /\ project_plan \in ModePlans
    /\ gen_result \in { g \in GenResults(project_plan) : g.shape = "plain" }
    /\ pc = "start"
    /\ code_by_file = << >>
    /\ entrypoint_name = None
    /\ total_attempts = 0
    /\ attempt_idx = 0
    /\ all_valid = FALSE
    /\ validation_issues_by_file = NoIssues
    /\ combined_code = << >>
    /\ final_run_result = Placeholder
    /\ attempts_meta = << >>
    /\ exc = None
    /\ downstream = None
    /\ cwd = LaunchDir
    /\ manifest_on_disk = FALSE
    /\ env_at_prefix = FALSE
    /\ pending = None
    /\ critic_answer = NotAsked
    /\ cwd_before = None
    /\ program_cwd = None
    /\ create_returncode = << >>
    /\ validations = 0
    /\ executions = 0
    /\ revisions = 0
    /\ call_args = << >>
    /\ OthersIdle

SpecModes == ModesInit /\ [][Next]_vars

\* solve_question_with_agent is not running.
AgentIdle ==
    /\ implementation = "agent"
    /\ config_max_retries = 0
    /\ config_use_isolated_env = TRUE
    /\ config_env_tool = "conda"
    /\ call_args = << >>
    /\ project_plan = Plan(<< >>, "none")
    /\ gen_result = GenResult("plain", << >>, None)
    /\ pc = "off"
    /\ code_by_file = << >>
    /\ entrypoint_name = None
    /\ total_attempts = 0
    /\ attempt_idx = 0
    /\ all_valid = FALSE
    /\ validation_issues_by_file = NoIssues
    /\ combined_code = << >>
    /\ final_run_result = Placeholder
    /\ attempts_meta = << >>
    /\ exc = None
    /\ downstream = None
    /\ cwd = LaunchDir
    /\ manifest_on_disk = FALSE
    /\ env_at_prefix = FALSE
    /\ pending = None
    /\ critic_answer = NotAsked
    /\ cwd_before = None
    /\ program_cwd = None
    /\ create_returncode = << >>
    /\ validations = 0
    /\ executions = 0
    /\ revisions = 0

\* ------------------------------------------------------------------ threads
\* Two runs use the inline path of run_generated_code at the same time, each
\* in a thread of the same process and with a work_dir of its own. The
\* working directory and sys.stdout belong to the process, not to a thread.

\* How many statements that read the working directory and print a line the
\* program of a run executes.
ProgramSteps == 2

\* The resolved work_dir of a run.
WorkPath(r) == << "work_path", r >>

\* runner.py 148-152: the buffer is made and the working directory read.
GetCwd ==
    \E r \in Runs :
        /\ run_pc[r] = "off"
        /\ run_cwd_before' = [run_cwd_before EXCEPT ![r] = process_cwd]
        /\ run_pc' = [run_pc EXCEPT ![r] = "try"]
        /\ UNCHANGED << agent_vars, parser, validator, rest, process_cwd, sys_stdout, run_old_target, run_steps, stdout_buf >>

\* runner.py 154: os.chdir(work_path).
Chdir ==
    \E r \in Runs :
        /\ run_pc[r] = "try"
        /\ process_cwd' = WorkPath(r)
        /\ run_pc' = [run_pc EXCEPT ![r] = "with"]
        /\ UNCHANGED << agent_vars, parser, validator, rest, sys_stdout, run_cwd_before, run_old_target, run_steps, stdout_buf >>

\* runner.py 156: redirect_stdout.__enter__ keeps what sys.stdout is bound to
\* and binds it to the buffer of the call.
Redirect ==
    \E r \in Runs :
        /\ run_pc[r] = "with"
        /\ run_old_target' = [run_old_target EXCEPT ![r] = sys_stdout]
        /\ sys_stdout' = r
        /\ run_pc' = [run_pc EXCEPT ![r] = "program"]
        /\ UNCHANGED << agent_vars, parser, validator, rest, process_cwd, run_cwd_before, run_steps, stdout_buf >>

\* runner.py 158-163: one statement of the program: its output goes to what
\* sys.stdout is bound to at that moment.
ProgramStep ==
    \E r \in Runs :
        /\ run_pc[r] = "program"
        /\ run_steps[r] < ProgramSteps
        /\ run_steps' = [run_steps EXCEPT ![r] = @ + 1]
        /\ stdout_buf' = IF sys_stdout \in Runs
                         THEN [stdout_buf EXCEPT ![sys_stdout] = @ \cup {r}]
                         ELSE stdout_buf
        /\ UNCHANGED << agent_vars, parser, validator, rest, process_cwd, sys_stdout, run_pc, run_cwd_before, run_old_target >>

\* redirect_stdout.__exit__ binds sys.stdout to what __enter__ kept.
Unredirect ==
    \E r \in Runs :
        /\ run_pc[r] = "program"
        /\ run_steps[r] = ProgramSteps
        /\ sys_stdout' = run_old_target[r]
        /\ run_pc' = [run_pc EXCEPT ![r] = "finally"]
        /\ UNCHANGED << agent_vars, parser, validator, rest, process_cwd, run_cwd_before, run_old_target, run_steps, stdout_buf >>

\* runner.py 169-182: os.chdir(cwd_before) and the return.
Restore ==
    \E r \in Runs :
        /\ run_pc[r] = "finally"
        /\ process_cwd' = run_cwd_before[r]
        /\ run_pc' = [run_pc EXCEPT ![r] = "returned"]
        /\ UNCHANGED << agent_vars, parser, validator, rest, sys_stdout, run_cwd_before, run_old_target, run_steps, stdout_buf >>

ThreadsInit == AgentIdle /\ ThreadsIdle /\ ParserIdle /\ ValidatorIdle /\ RestIdle

ThreadsNext ==
    \/ GetCwd
    \/ Chdir
    \/ Redirect
    \/ ProgramStep
    \/ Unredirect
    \/ Restore

SpecThreads == ThreadsInit /\ [][ThreadsNext]_vars

\* ------------------------------------------------------------------ parser
\* parse_answer_from_stdout (execution/answer_parser.py). The stdout text is
\* a sequence of tokens: the marker "Answer:", a numeral the pattern
\* [+-]?\d+(?:\.\d+)?(?:[eE][+-]?\d+)? matches ("1" or "2"), a run of blanks
\* "ws", other text "txt" and the line break "nl".

\* Longest stdout explored, in tokens.
MaxStdoutLen == 5

Numerals == {"1", "2"}
StdoutTokens == {"Answer:", "ws", "txt", "nl"} \cup Numerals

Stdouts == UNION { [1..n -> StdoutTokens] : n \in 0..MaxStdoutLen }

\* str.splitlines(): the lines between the line breaks; a line break at the
\* end of the text starts no further line.
RECURSIVE SplitFrom(_, _, _)
SplitFrom(text, line, lines) ==
    IF text = << >> THEN (IF line = << >> THEN lines ELSE Append(lines, line))
    ELSE IF Head(text) = "nl" THEN SplitFrom(Tail(text), << >>, Append(lines, line))
    ELSE SplitFrom(Tail(text), Append(line, Head(text)), lines)

splitlines(text) == SplitFrom(text, << >>, << >>)

\* "Answer:" in line
HasMarker(line) == \E i \in 1..Len(line) : line[i] = "Answer:"

\* A scan that stops at the first line with the marker.
first_answer_line(lines) ==
    IF \E i \in 1..Len(lines) : HasMarker(lines[i])
    THEN CHOOSE i \in 1..Len(lines) :
           HasMarker(lines[i]) /\ \A k \in 1..(i - 1) : ~HasMarker(lines[k])
    ELSE 0

\* answer_parser.py 29-33: for line in reversed(lines): the position of the
\* last line with the marker, 0 when no line has it.
last_answer_line(lines) ==
    IF \E i \in 1..Len(lines) : HasMarker(lines[i])
    THEN CHOOSE i \in 1..Len(lines) :
           HasMarker(lines[i]) /\ \A k \in (i + 1)..Len(lines) : ~HasMarker(lines[k])
    ELSE 0

\* str.strip(): the line without the blanks at its two ends.
RECURSIVE strip(_)
strip(line) ==
    IF line = << >> THEN line
    ELSE IF Head(line) = "ws" THEN strip(Tail(line))
    ELSE IF line[Len(line)] = "ws" THEN strip(SubSeq(line, 1, Len(line) - 1))
    ELSE line

\* \s*: the first position from k on that holds no blank.
RECURSIVE SkipBlanks(_, _)
SkipBlanks(line, k) ==
    IF k <= Len(line) /\ line[k] = "ws" THEN SkipBlanks(line, k + 1) ELSE k

\* The pattern Answer:\s*(numeral) matches at position i of the line.
MatchesAt(line, i) ==
    /\ line[i] = "Answer:"
    /\ SkipBlanks(line, i + 1) <= Len(line)
    /\ line[SkipBlanks(line, i + 1)] \in Numerals

\* re.search: group 1 of the leftmost match, None when nothing matches.
search(line) ==
    IF \E i \in 1..Len(line) : MatchesAt(line, i)
    THEN LET i == CHOOSE j \in 1..Len(line) :
                    MatchesAt(line, j) /\ \A k \in 1..(j - 1) : ~MatchesAt(line, k)
         IN line[SkipBlanks(line, i + 1)]
    ELSE None

\* float(num_str)
float(num_str) == IF num_str = "1" THEN "1.0" ELSE "2.0"

\* The dict returned; raw_line is << >> for None and << the line >> otherwise.
Parsed(raw_line, value, parse_success, error) ==
    [raw_line |-> raw_line, value |-> value, parse_success |-> parse_success,
     error |-> error]

\* answer_parser.py 5-66.
parse_answer_from_stdout(text) ==
    LET lines == splitlines(text)
        at == last_answer_line(lines)
    IN IF at = 0
       THEN Parsed(<< >>, None, FALSE, "no_answer_line")
       ELSE LET answer_line == strip(lines[at])
                num_str == search(answer_line)
            IN IF num_str = None
               THEN Parsed(<< answer_line >>, None, FALSE, "no_numeric_value")
               ELSE Parsed(<< answer_line >>, float(num_str), TRUE, None)

ParserInit ==
    /\ AgentIdle
    /\ ThreadsIdle
    /\ ValidatorIdle
    /\ RestIdle
    /\ parser_stdout \in Stdouts
    /\ parser_result = << >>

Parse ==
    /\ parser_result = << >>
    /\ parser_result' = << parse_answer_from_stdout(parser_stdout) >>
    /\ UNCHANGED << agent_vars, threads, validator, rest, parser_stdout >>

ParserNext == Parse

SpecParser == ParserInit /\ [][ParserNext]_vars

\* ------------------------------------------------------------------ validator
\* validate_code (validation/validator.py) on source texts. A text is a
\* sequence of statements; a statement is the sequence of its chunks, the
\* pieces blanks separate; a chunk is the sequence of its segments, the words
\* and the punctuation between them. imports is the set of modules the
\* statement imports when it runs.
Statement(chunks, imports) == [chunks |-> chunks, imports |-> imports]

ImportOs       == Statement(<< <<"import">>, <<"os">> >>, {"os"})
ImportOsPath   == Statement(<< <<"import">>, <<"os", ".", "path">> >>, {"os"})
FromOsImport   == Statement(<< <<"from">>, <<"os">>, <<"import">>, <<"path">> >>, {"os"})
ImportSysOs    == Statement(<< <<"import">>, <<"sys", ",">>, <<"os">> >>, {"sys", "os"})
ImportOsSys    == Statement(<< <<"import">>, <<"os", ",">>, <<"sys">> >>, {"sys", "os"})
ImportOsx      == Statement(<< <<"import">>, <<"osx">> >>, {"osx"})
CallRemove     == Statement(<< <<"os.remove", "(", "p", ")">> >>, {})
Fence          == Statement(<< <<"fence">> >>, {})
PrintAnswer    == Statement(<< <<"print", "(", "'", "Answer:", "'", ",">>, <<"v", ")">> >>, {})
PrintFAnswer   == Statement(<< <<"print", "(", "f", "'", "Answer:">>, <<"{v}", "'", ")">> >>, {})
Assignment     == Statement(<< <<"x">>, <<"=">>, <<"1">> >>, {})

Statements ==
    { ImportOs, ImportOsPath, FromOsImport, ImportSysOs, ImportOsSys, ImportOsx,
      CallRemove, Fence, PrintAnswer, PrintFAnswer, Assignment }

\* Longest source text explored, in statements.
MaxStatements == 3

SourceTexts == UNION { [1..n -> Statements] : n \in 0..MaxStatements }

\* The rule configurations explored: the lists of forbidden modules and
\* calls, in the order of the configuration, and the flag.
RuleConfig(modules, calls, flag) ==
    [forbidden_modules |-> modules, forbidden_calls |-> calls,
     require_answer_print |-> flag]

RuleConfigs ==
    { RuleConfig(<< "os" >>, << "os.remove" >>, TRUE),
      RuleConfig(<< "sys", "os" >>, << "os.remove" >>, FALSE),
      RuleConfig(<< "os", "sys" >>, << >>, TRUE),
      RuleConfig(<< >>, << >>, FALSE) }

\* The chunks of a text, and its segments, from its first to its last.
RECURSIVE Chunks(_)
Chunks(text) ==
    IF text = << >> THEN << >> ELSE Head(text).chunks \o Chunks(Tail(text))

RECURSIVE Segments(_)
Segments(chunks) ==
    IF chunks = << >> THEN << >> ELSE Head(chunks) \o Segments(Tail(chunks))

\* re.search(rf"\b{keyword}\s+{mod}\b", code): the keyword, blanks, and then
\* a chunk that starts with the word mod and goes on, if at all, with
\* something that is not part of a word.
KeywordThenModule(chunks, keyword, mod) ==
    \E i \in 1..(Len(chunks) - 1) :
        /\ chunks[i][Len(chunks[i])] = keyword
        /\ chunks[i + 1][1] = mod

\* validator.py 21-23.
UsesForbiddenModule(chunks, mod) ==
    \/ KeywordThenModule(chunks, "import", mod)
    \/ KeywordThenModule(chunks, "from", mod)

\* validator.py 28: call in code.
HasCall(chunks, call) ==
    \E i \in 1..Len(Segments(chunks)) : Segments(chunks)[i] = call

\* validator.py 32: the text holds a markdown code fence, three backquotes
\* in a row, which the segment "fence" stands for.
HasFence(chunks) ==
    \E i \in 1..Len(Segments(chunks)) : Segments(chunks)[i] = "fence"

\* validator.py 40: the pattern matches somewhere: print, an opening
\* parenthesis, a quote and Answer:, with nothing but blanks between print,
\* the parenthesis and the quote.
HasAnswerPrint(chunks) ==
    LET segs == Segments(chunks)
    IN \E i \in 1..(Len(segs) - 3) :
         /\ segs[i] = "print"
         /\ segs[i + 1] = "("
         /\ segs[i + 2] = "'"
         /\ segs[i + 3] = "Answer:"

Issue(check, name) == [check |-> check, name |-> name]

\* The issues of the loop over a list of the configuration, in its order.
RECURSIVE IssuesOver(_, _, _)
IssuesOver(names, check, hit) ==
    IF names = << >> THEN << >>
    ELSE (IF hit[Head(names)] THEN << Issue(check, Head(names)) >> ELSE << >>)
         \o IssuesOver(Tail(names), check, hit)

\* A choice of the flag that looks at the configuration only.
NeedAnswerFromConfig(config, flag) == config.require_answer_print

\* validator.py 38.
NeedAnswer(config, flag) ==
    IF flag = << >> THEN config.require_answer_print ELSE flag[1]

\* validator.py 6-45: the pair (is_valid, issues).
validate_source(text, config, flag) ==
    LET chunks == Chunks(text)
        mods == config.forbidden_modules
        calls == config.forbidden_calls
        issues ==
            IssuesOver(mods, "module",
                       [m \in SeqToSet(mods) |-> UsesForbiddenModule(chunks, m)])
            \o IssuesOver(calls, "call",
                          [c \in SeqToSet(calls) |-> HasCall(chunks, c)])
            \o (IF HasFence(chunks) THEN << Issue("fence", "") >> ELSE << >>)
            \o (IF NeedAnswer(config, flag) /\ ~HasAnswerPrint(chunks)
                THEN << Issue("marker", "") >> ELSE << >>)
    IN [is_valid |-> Len(issues) = 0, issues |-> issues]

ValidatorInit ==
    /\ AgentIdle
    /\ ThreadsIdle
    /\ ParserIdle
    /\ RestIdle
    /\ rule_config \in RuleConfigs
    /\ source_code \in SourceTexts
    /\ answer_flag \in {<< >>, << TRUE >>, << FALSE >>}
    /\ verdict = << >>

ValidateSource ==
    /\ verdict = << >>
    /\ verdict' = << validate_source(source_code, rule_config, answer_flag) >>
    /\ UNCHANGED << agent_vars, threads, parser, rest, rule_config, source_code, answer_flag >>

ValidatorNext == ValidateSource

SpecValidator == ValidatorInit /\ [][ValidatorNext]_vars

\* ------------------------------------------------------------- planner
\* _normalize_metric_names on an experiment plan. A string is the sequence
\* of its pieces, "_" and " " being pieces of their own; the empty sequence
\* is a missing or empty string.

\* Most experiments in a plan, most metrics in an experiment.
MaxExperiments == 2
MaxMetrics == 2

MetricNames == { << >>, <<"a">>, <<"a", "_", "exp2">> }
ExperimentIds == { << >>, <<"exp2">> }

SeqsUpTo(S, n) == UNION { [1..k -> S] : k \in 0..n }

Metric(name) == [name |-> name]
Experiment(id, metrics) == [id |-> id, metrics |-> metrics]

ExperimentPlans ==
    SeqsUpTo({ Experiment(id, ms) :
                 id \in ExperimentIds,
                 ms \in SeqsUpTo({ Metric(n) : n \in MetricNames }, MaxMetrics) },
             MaxExperiments)

\* f"exp{idx + 1}" for the experiment at position idx + 1 of the list.
ExpLabels == <<"exp1", "exp2", "exp3", "exp4", "exp5", "exp6">>
exp_id(exp, position) == IF exp.id # << >> THEN exp.id ELSE << ExpLabels[position] >>

\* exp_id.replace(" ", "_")
safe_suffix(id) == [i \in 1..Len(id) |-> IF id[i] = " " THEN "_" ELSE id[i]]

\* The loop over one experiment's metrics, from the names seen so far.
RECURSIVE new_metrics(_, _, _)
new_metrics(metrics, suffix, seen) ==
    IF metrics = << >> THEN [metrics |-> << >>, seen |-> seen]
    ELSE LET name == Head(metrics).name
             new_name == IF name \in seen THEN name \o <<"_">> \o suffix ELSE name
         IN  IF name = << >>
             THEN LET tail == new_metrics(Tail(metrics), suffix, seen)
                  IN  [metrics |-> << Head(metrics) >> \o tail.metrics,
                       seen |-> tail.seen]
             ELSE LET tail == new_metrics(Tail(metrics), suffix, seen \cup {new_name})
                  IN  [metrics |-> << Metric(new_name) >> \o tail.metrics,
                       seen |-> tail.seen]

\* The loop over the experiments, from the one at the given position on.
RECURSIVE normalized_experiments(_, _, _)
normalized_experiments(experiments, position, seen) ==
    IF position > Len(experiments) THEN << >>
    ELSE LET exp == experiments[position]
             done == new_metrics(exp.metrics, safe_suffix(exp_id(exp, position)), seen)
         IN  << Experiment(exp.id, done.metrics) >>
             \o normalized_experiments(experiments, position + 1, done.seen)

_normalize_metric_names(experiment_plan) ==
    normalized_experiments(experiment_plan, 1, {})

MetricsInit ==
    /\ AgentIdle
    /\ ThreadsIdle
    /\ ParserIdle
    /\ ValidatorIdle
    /\ DirsIdle
    /\ InlineIdle
    /\ fn_args \in ExperimentPlans
    /\ fn_value = << >>

NormalizeMetricNames ==
    /\ fn_value = << >>
    /\ fn_value' = << _normalize_metric_names(fn_args) >>
    /\ UNCHANGED << agent_vars, threads, parser, validator, dirs, inline, fn_args >>

MetricsNext == NormalizeMetricNames

SpecMetrics == MetricsInit /\ [][MetricsNext]_vars

\* --------------------------------------------------------- persistence
\* create_experiment_dirs called once by each of two runs that share
\* base_dir and the wall clock. A text is the sequence of its characters.

\* Longest question, in characters, and the last second of the clock.
MaxQuestionLen == 2
MaxClock == 1

\* max_len of _slugify
SlugMaxLen == 60

QuestionChars == {"a", "A", "?", " "}
Questions == SeqsUpTo(QuestionChars, MaxQuestionLen)

\* [a-zA-Z0-9]
Alnum == {"a", "A"}

\* str.lower
lower(text) == [i \in 1..Len(text) |-> IF text[i] = "A" THEN "a" ELSE text[i]]

\* str.strip and str.rstrip of the characters given
RECURSIVE lstrip_chars(_, _)
lstrip_chars(text, chars) ==
    IF text # << >> /\ Head(text) \in chars
    THEN lstrip_chars(Tail(text), chars) ELSE text

RECURSIVE rstrip_chars(_, _)
rstrip_chars(text, chars) ==
    IF text # << >> /\ text[Len(text)] \in chars
    THEN rstrip_chars(SubSeq(text, 1, Len(text) - 1), chars) ELSE text

strip_chars(text, chars) == rstrip_chars(lstrip_chars(text, chars), chars)

\* _SLUG_RE.sub("_", text): every longest run of other characters becomes "_"
RECURSIVE slug_sub(_)
slug_sub(text) ==
    IF text = << >> THEN << >>
    ELSE IF Head(text) \in Alnum
         THEN << Head(text) >> \o slug_sub(Tail(text))
         ELSE <<"_">> \o slug_sub(lstrip_chars(text, QuestionChars \ Alnum))

_slugify(question) ==
    LET text == strip_chars(slug_sub(lower(strip_chars(question, {" "}))), {"_"})
        cut == IF Len(text) > SlugMaxLen
               THEN rstrip_chars(SubSeq(text, 1, SlugMaxLen), {"_"})
               ELSE text
    IN  IF cut # << >> THEN cut ELSE <<"r", "u", "n">>

\* base / f"{ts}_{slug}" and a folder below it
RootDir(ts, slug) == << "experiments", [ts |-> ts, slug |-> slug] >>
Sub(root, folder) == root \o << folder >>

ExperimentDirs(root) ==
    [root_dir |-> root, code_dir |-> Sub(root, "code"),
     paper_dir |-> Sub(root, "paper"), markdown_dir |-> Sub(root, "markdown"),
     figures_dir |-> Sub(root, "figures")]

DirsInit ==
    /\ AgentIdle
    /\ ThreadsIdle
    /\ ParserIdle
    /\ ValidatorIdle
    /\ PureIdle
    /\ InlineIdle
    /\ clock = 0
    /\ questions \in [Runs -> Questions]
    /\ dirs_on_disk = {}
    /\ paths = [r \in Runs |-> << >>]

\* A second passes.
Tick ==
    /\ clock < MaxClock
    /\ clock' = clock + 1
    /\ UNCHANGED << agent_vars, threads, parser, validator, pure, inline,
                    questions, dirs_on_disk, paths >>

\* mkdir(parents=True, exist_ok=True) of every folder: one that exists stays.
CreateExperimentDirs ==
    \E r \in Runs :
        /\ paths[r] = << >>
        /\ LET made == ExperimentDirs(RootDir(clock, _slugify(questions[r])))
           IN  /\ dirs_on_disk' = dirs_on_disk \cup
                      { made[k] : k \in DOMAIN made }
               /\ paths' = [paths EXCEPT ![r] = << made >>]
        /\ UNCHANGED << agent_vars, threads, parser, validator, pure, inline,
                        clock, questions >>

DirsNext == Tick \/ CreateExperimentDirs

SpecDirs == DirsInit /\ [][DirsNext]_vars

\* -------------------------------------------------------- helper usage
\* The helper-usage check of one validation round, on a project of a helper
\* file and an entrypoint file. A line is the sequence of its pieces: words,
\* punctuation and " ", a single blank.

\* Most lines in a file.
MaxLines == 2

DefF        == <<"def", " ", "f", "(", ")", ":">>
DefG        == <<"def", " ", "g", "(", ")", ":">>
IndentedDef == <<" ", " ", "def", " ", " ", "f", " ", "(", "x", ")", ":">>
DefHCallsF  == <<"def", " ", "h", "(", ")", ":", " ", "f", "(", ")">>
ClassF      == <<"class", " ", "f", "(", "Base", ")", ":">>
CallF       == <<"x", " ", "=", " ", "f", "(", "1", ")">>
IndentedCallG == <<" ", "y", "=", "g", " ", "(", "2", ")">>
NamesF      == <<"z", "=", "f">>
Constant    == <<"k", "=", "1">>

HelperLines == { DefF, DefG, IndentedDef, Constant }
EntryLines == { DefF, DefHCallsF, ClassF, CallF, IndentedCallG, NamesF }

FunctionNames == <<"f", "g", "h">>

HelperProjects ==
    { [helper |-> h, entry |-> e] :
        h \in SeqsUpTo(HelperLines, MaxLines), e \in SeqsUpTo(EntryLines, MaxLines) }

\* str.lstrip
lstrip(line) == lstrip_chars(line, {" "})

\* line[i..] is \s*\(
RECURSIVE OpensCall(_, _)
OpensCall(line, i) ==
    /\ i <= Len(line)
    /\ \/ line[i] = "("
       \/ line[i] = " " /\ OpensCall(line, i + 1)

\* _FUNC_PATTERN on one line: the names it finds, at most one.
FuncPatternMatch(line) ==
    LET rest_of == lstrip(line)
        after_def == IF Len(rest_of) >= 2 THEN lstrip(Tail(rest_of)) ELSE << >>
    IN  IF /\ Len(rest_of) >= 2
           /\ rest_of[1] = "def"
           /\ rest_of[2] = " "
           /\ after_def # << >>
           /\ after_def[1] \in SeqToSet(FunctionNames)
           /\ OpensCall(after_def, 2)
        THEN << after_def[1] >>
        ELSE << >>

\* _extract_function_names_from_code
RECURSIVE _extract_function_names_from_code(_)
_extract_function_names_from_code(code) ==
    IF code = << >> THEN << >>
    ELSE FuncPatternMatch(Head(code)) \o _extract_function_names_from_code(Tail(code))

\* Deduplicate while preserving order
RECURSIVE unique_names(_, _)
unique_names(names, seen) ==
    IF names = << >> THEN << >>
    ELSE IF Head(names) \in seen THEN unique_names(Tail(names), seen)
         ELSE << Head(names) >> \o unique_names(Tail(names), seen \cup {Head(names)})

\* _get_helper_function_names with entrypoint_name the entrypoint file
_get_helper_function_names(project) ==
    unique_names(_extract_function_names_from_code(project.helper), {})

\* A line that no definition line is.
NeverDefinitionLine(line) == FALSE

\* stripped.startswith("def ") or stripped.startswith("class ")
IsDefinitionLine(line) ==
    LET stripped == lstrip(line)
    IN  /\ Len(stripped) >= 2
        /\ stripped[1] \in {"def", "class"}
        /\ stripped[2] = " "

\* re.search(r"\b" + fn + r"\s*\(", line)
SearchCall(fn, line) ==
    \E i \in 1..Len(line) : line[i] = fn /\ OpensCall(line, i + 1)

RECURSIVE _entrypoint_uses_helpers(_, _)
_entrypoint_uses_helpers(code, helper_function_names) ==
    IF helper_function_names = << >> THEN FALSE
    ELSE IF code = << >> THEN FALSE
    ELSE IF /\ ~IsDefinitionLine(Head(code))
            /\ \E k \in 1..Len(helper_function_names) :
                   SearchCall(helper_function_names[k], Head(code))
         THEN TRUE
         ELSE _entrypoint_uses_helpers(Tail(code), helper_function_names)

\* sorted(names), for names among FunctionNames
sorted(names) == SelectSeq(FunctionNames, LAMBDA n : n \in SeqToSet(names))

\* Lines 249-262 of agent.py, entered with all_valid true and no issue.
HelperUsageCheck(project) ==
    LET helper_function_names == _get_helper_function_names(project)
    IN  IF /\ helper_function_names # << >>
           /\ ~_entrypoint_uses_helpers(project.entry, helper_function_names)
        THEN [all_valid |-> FALSE,
              issues_by_file |->
                  Extend(NoIssues, "main.py",
                         << [check |-> "helper", names |-> sorted(helper_function_names)] >>)]
        ELSE [all_valid |-> TRUE, issues_by_file |-> NoIssues]

HelpersInit ==
    /\ AgentIdle
    /\ ThreadsIdle
    /\ ParserIdle
    /\ ValidatorIdle
    /\ DirsIdle
    /\ InlineIdle
    /\ fn_args \in HelperProjects
    /\ fn_value = << >>

CheckHelperUsage ==
    /\ fn_value = << >>
    /\ fn_value' = << HelperUsageCheck(fn_args) >>
    /\ UNCHANGED << agent_vars, threads, parser, validator, dirs, inline, fn_args >>

HelpersNext == CheckHelperUsage

SpecHelpers == HelpersInit /\ [][HelpersNext]_vars

\* -------------------------------------------------- artifact completeness
\* The artifact-completeness check of one validation round. A text is the
\* sequence of its pieces, the extension ".png" being one piece; << >> is a
\* filename that is missing or empty.

\* Most plots an experiment declares.
MaxPlots == 2

PlotA == <<"a", ".png">>
PlotB == <<"b", ".png">>
PlotFilenames == { << >>, PlotA, PlotB }

\* combined_code_for_validation: no text, a text that names "da.png", a text
\* that names "b.png".
CombinedTexts ==
    { << >>,
      <<"savefig", "(", "d", "a", ".png", ")">>,
      <<"p", "=", "b", ".png">> }

\* The plans and projects checked. No entrypoint is known only when the plan
\* declares no file, and the combined code is then empty.
PlotProjects ==
    { a \in [plots : SeqsUpTo(SeqsUpTo(PlotFilenames, MaxPlots), MaxExperiments),
              code : CombinedTexts,
              entrypoint_name : { << >>, <<"run.py">> }] :
        a.entrypoint_name = << >> => a.code = << >> }

\* The loop of _expected_plot_filenames over the experiments and their plots.
RECURSIVE filenames(_)
filenames(experiments) ==
    IF experiments = << >> THEN << >>
    ELSE SelectSeq(Head(experiments), LAMBDA fn : fn # << >>)
         \o filenames(Tail(experiments))

_expected_plot_filenames(project) == unique_names(filenames(project.plots), {})

\* fn in combined_code, from position i on
RECURSIVE occurs_in(_, _, _)
occurs_in(fn, text, i) ==
    /\ i + Len(fn) - 1 <= Len(text)
    /\ \/ SubSeq(text, i, i + Len(fn) - 1) = fn
       \/ occurs_in(fn, text, i + 1)

_entrypoint_generates_required_plots(combined, project) ==
    SelectSeq(_expected_plot_filenames(project),
              LAMBDA fn : ~occurs_in(fn, combined, 1))

\* An issue that always goes to "main.py".
TargetAlwaysMain(entry) == "main.py"

\* entrypoint_name or "main.py"
TargetFile(entry) == IF entry # << >> THEN entry[1] ELSE "main.py"

\* Lines 264-279 of agent.py, entered with all_valid true and no issue.
ArtifactCheck(project) ==
    LET missing_plots == _entrypoint_generates_required_plots(project.code, project)
    IN  IF missing_plots # << >>
        THEN [all_valid |-> FALSE,
              issues_by_file |->
                  Extend(NoIssues, TargetFile(project.entrypoint_name),
                         << [check |-> "plots", names |-> missing_plots] >>)]
        ELSE [all_valid |-> TRUE, issues_by_file |-> NoIssues]

PlotsInit ==
    /\ AgentIdle
    /\ ThreadsIdle
    /\ ParserIdle
    /\ ValidatorIdle
    /\ DirsIdle
    /\ InlineIdle
    /\ fn_args \in PlotProjects
    /\ fn_value = << >>

CheckArtifacts ==
    /\ fn_value = << >>
    /\ fn_value' = << ArtifactCheck(fn_args) >>
    /\ UNCHANGED << agent_vars, threads, parser, validator, dirs, inline, fn_args >>

PlotsNext == CheckArtifacts

SpecPlots == PlotsInit /\ [][PlotsNext]_vars

\* --------------------------------------------------------- inline runs
\* The inline path of run_generated_code, lines 144-168, on a program that
\* is a sequence of top-level statements:
\*   "def main"     def main(): ...            binds main to a function
\*   "main = 5"     binds main to a number
\*   "guarded call" if __name__ == "__main__": main()
\*   "print"        a statement that neither binds main nor fails
\*   "raise"        a statement that raises an Exception

\* Most top-level statements in a program.
MaxTopLevel == 3

TopLevelStatements == {"def main", "main = 5", "guarded call", "print", "raise"}

Programs == SeqsUpTo(TopLevelStatements, MaxTopLevel)

\* Lines 144-146: the namespace the program is executed in.
SeededGlobals == [name |-> "__main__", main |-> "unbound"]

\* callable(main_fn)
callable(binding) == binding = "function"

InlineInit ==
    /\ AgentIdle
    /\ ThreadsIdle
    /\ ParserIdle
    /\ ValidatorIdle
    /\ PureIdle
    /\ DirsIdle
    /\ inline_code \in Programs
    /\ inline_pc = "exec"
    /\ inline_next = 1
    /\ run_globals = SeededGlobals
    /\ main_runs = 0
    /\ inline_traceback = FALSE

\* Line 158, exec(code, run_globals): the next top-level statement runs. A
\* call of main under the guard runs the body of main when main is bound to
\* a function and raises (NameError, TypeError) when it is not; an exception
\* ends exec and is caught at line 166.
ExecStatement ==
    /\ inline_pc = "exec"
    /\ inline_next <= Len(inline_code)
    /\ LET stmt == inline_code[inline_next]
           calls_main == stmt = "guarded call" /\ run_globals.name = "__main__"
           raises == stmt = "raise" \/ (calls_main /\ ~callable(run_globals.main))
       IN  /\ run_globals' =
                 IF stmt = "def main" THEN [run_globals EXCEPT !.main = "function"]
                 ELSE IF stmt = "main = 5" THEN [run_globals EXCEPT !.main = "number"]
                 ELSE run_globals
           /\ main_runs' = IF calls_main /\ callable(run_globals.main)
                           THEN main_runs + 1 ELSE main_runs
           /\ inline_traceback' = raises
           /\ inline_pc' = IF raises THEN "done" ELSE "exec"
           /\ inline_next' = IF raises THEN inline_next ELSE inline_next + 1
    /\ UNCHANGED << agent_vars, threads, parser, validator, pure, dirs, inline_code >>

\* Lines 161-165: exec has returned; main_fn = run_globals.get("main") is
\* called when it is callable, and the run has succeeded.
CallMain ==
    /\ inline_pc = "exec"
    /\ inline_next > Len(inline_code)
    /\ main_runs' = IF callable(run_globals.main) THEN main_runs + 1 ELSE main_runs
    /\ inline_pc' = "done"
    /\ UNCHANGED << agent_vars, threads, parser, validator, pure, dirs,
                    inline_code, inline_next, run_globals, inline_traceback >>

InlineNext == ExecStatement \/ CallMain

SpecInline == InlineInit /\ [][InlineNext]_vars

\* ------------------------------------------------------------------ claims
MaxAttempts == 1 + Max(config_max_retries, 0)

Last(log) == log[Len(log)]

\* The loop was entered and has been left, by a break or by an exception.
LoopOver ==
    \/ pc \in {"stopped", "done"}
    \/ pc = "raised" /\ validations > 0

\* The loop was left by a break, or by what a collaborator the claims name
\* did: the executed program asked to exit, or the revision call failed.
LoopOverBy(faults) ==
    \/ pc \in {"stopped", "done"}
    \/ pc = "raised" /\ validations > 0 /\ exc \in faults

\* The states in which run_generated_code is running.
ExecutorPcs ==
    {"exec_provision", "exec_run", "exec_inline", "exec_finally", "exec_waiting"}

\* C1: for every retry budget and every sequence of validator, critic,
\* executor and revision outcomes the loop runs at least one and at most
\* 1 + max(0, b) iterations and appends one record per iteration: the log
\* never exceeds 1 + max(0, b) records, and once the loop is over (whatever
\* the executor and the revision did) it holds one record for each iteration
\* that ran, at least one.
C1_OneRecordPerIteration ==
    /\ Len(attempts_meta) <= MaxAttempts
    /\ validations <= MaxAttempts
    /\ LoopOverBy({"SystemExit", "LLMError"}) =>
         (Len(attempts_meta) >= 1 /\ Len(attempts_meta) = validations)

\* The part of C1 the code keeps: the bound on the log and on the iterations,
\* and at least one record whenever the loop is left by a break.
BudgetBound ==
    /\ Len(attempts_meta) <= MaxAttempts
    /\ validations <= MaxAttempts
    /\ pc \in {"stopped", "done"} =>
         (Len(attempts_meta) >= 1 /\ Len(attempts_meta) = validations)

\* C2: when every attempt fails (by validation, by provisioning or because the
\* program fails) and an entrypoint name is known, the loop uses its whole
\* budget: for b >= 0 the log of a loop that is over holds b + 1 records, all
\* with success = false.
C2_FailuresUseWholeBudget ==
    ( /\ LoopOverBy({"SystemExit"})
      /\ config_max_retries >= 0
      /\ entrypoint_name /= None
      /\ \A k \in 1..Len(attempts_meta) : ~attempts_meta[k].success )
    => Len(attempts_meta) = config_max_retries + 1

\* C3: the loop stops at the first successful attempt: only the last record
\* can have success = true and its attempt passed validation; once it is in
\* the log the controller is at the decision or past the loop, and no step
\* validates, executes, requests a revision or appends a record any more.
C3_StopsAtFirstSuccess ==
    /\ [](\A k \in 1..Len(attempts_meta) :
            attempts_meta[k].success => k = Len(attempts_meta))
    /\ []((Len(attempts_meta) >= 1 /\ Last(attempts_meta).success) =>
            /\ pc \in {"decide", "stopped", "done"}
            /\ all_valid
            /\ validations = Len(attempts_meta)
            /\ revisions = Len(attempts_meta) - 1
            /\ exc = None)
    /\ [][(Len(attempts_meta) >= 1 /\ Last(attempts_meta).success) =>
            UNCHANGED << validations, executions, revisions, attempts_meta,
                         code_by_file >>]_vars

\* An attempt after the first one succeeded and ended the loop.
C3_Witness ==
    /\ pc = "done"
    /\ Len(attempts_meta) = 3
    /\ Last(attempts_meta).success
    /\ ~attempts_meta[1].success
    /\ ~attempts_meta[2].success

\* C4: in an attempt whose merged verdict is false the executor is not
\* invoked: the executor runs only in attempts whose verdict is true, the
\* step taken from a failed validation calls nothing, and the attempt's
\* result is success = false, empty stdout and the validation-error string
\* over the attempt's issues.
C4_NoExecutionWhenInvalid ==
    /\ [](pc \in ExecutorPcs => all_valid)
    /\ []((pc \in {"record", "decide"} /\ ~all_valid) =>
            /\ ~final_run_result.success
            /\ final_run_result.stdout = ""
            /\ final_run_result.error =
                 Error("ValidationError", validation_issues_by_file))
    /\ [][(pc = "validated" /\ ~all_valid) =>
            (executions' = executions /\ pc' = "record")]_vars

\* A failed validation was recorded without any executor call in the run.
C4_Witness ==
    /\ pc = "decide"
    /\ ~all_valid
    /\ executions = 0
    /\ validation_issues_by_file /= NoIssues

\* C5: whatever the number of revisions, every key of CodeByFile other than
\* the entrypoint's holds the text the initial generation produced, and no
\* key other than the entrypoint's is ever added.
C5_OnlyEntrypointRevised ==
    (pc /= "start" /\ gen_result.shape /= "empty_tuple") =>
        /\ \A n \in DOMAIN gen_result.code :
             n /= entrypoint_name =>
                (n \in DOMAIN code_by_file /\ code_by_file[n] = gen_result.code[n])
        /\ DOMAIN code_by_file \subseteq DOMAIN gen_result.code \cup {entrypoint_name}

\* Two revisions have replaced the entrypoint of a plan that has other files.
C5_Witness ==
    /\ revisions = 2
    /\ pc = "loop"
    /\ entrypoint_name = "main.py"
    /\ "helper.py" \in DOMAIN code_by_file
    /\ code_by_file["main.py"] /= gen_result.code["main.py"]

\* C6: a revision is requested once after each attempt that did not succeed,
\* is not the last permitted one and has a known entrypoint, and never
\* otherwise: the requests never exceed the retry budget; after a break they
\* number one less than the records; and the loop is never over (whatever
\* the executed program did) after an attempt that did not succeed while a
\* retry is left and the entrypoint is known.
C6_RevisionPerFailedAttempt ==
    /\ revisions <= Max(config_max_retries, 0)
    /\ entrypoint_name = None => revisions = 0
    /\ pc \in {"stopped", "done"} => revisions = Len(attempts_meta) - 1
    /\ ( /\ LoopOverBy({"SystemExit"})
         /\ ~(Len(attempts_meta) = validations /\ Last(attempts_meta).success) )
       => (entrypoint_name = None \/ validations = MaxAttempts)

\* The part of C6 the code keeps: the decision taken after a recorded attempt.
RevisionDecision ==
    /\ revisions <= Max(config_max_retries, 0)
    /\ entrypoint_name = None => revisions = 0
    /\ pc \in {"stopped", "done"} => revisions = Len(attempts_meta) - 1
    /\ (pc \in {"stopped", "done"} /\ ~Last(attempts_meta).success) =>
         (entrypoint_name = None \/ Len(attempts_meta) = MaxAttempts)

\* C7: the log is append-only: no step changes, removes or reorders a record
\* that is in the log, and the record at position k has attempt_index k
\* (counting from 0).
C7_AppendOnly ==
    /\ [](\A k \in 1..Len(attempts_meta) : attempts_meta[k].attempt_index = k - 1)
    /\ [][/\ Len(attempts_meta') >= Len(attempts_meta)
          /\ \A k \in 1..Len(attempts_meta) : attempts_meta'[k] = attempts_meta[k]]_vars

\* A later attempt, with a revised entrypoint and other validation issues,
\* was recorded after a first one.
C7_Witness ==
    /\ Len(attempts_meta) = 3
    /\ attempts_meta[1].validation_issues /= attempts_meta[3].validation_issues
    /\ attempts_meta[1].error /= attempts_meta[2].error

\* C8: the result handed downstream and returned is the result of the last
\* iteration: its success and error are those of the last record, and it is
\* not the placeholder built before the loop.
C8_FinalResultIsLastAttempt ==
    pc = "done" =>
        /\ Len(attempts_meta) >= 1
        /\ downstream = final_run_result
        /\ downstream.success = Last(attempts_meta).success
        /\ downstream.error = Last(attempts_meta).error
        /\ downstream /= Placeholder

\* The result of a third attempt, which differs from the first attempt's,
\* went downstream.
C8_Witness ==
    /\ pc = "done"
    /\ Len(attempts_meta) = 3
    /\ downstream.error /= attempts_meta[1].error
    /\ downstream.success

\* C9: once the loop has started the controller never raises, whatever the
\* in-loop condition; only an error detected before the loop propagates.
C9_ControllerNeverRaises ==
    ~(pc = "raised" /\ LoopOver)

\* C10: run_generated_code never propagates a fault of the executed program:
\* what the program raises, an interpreter-exit request included, comes back
\* as a result with success = false and an error.
C10_ExecutorCatchesProgramFaults ==
    /\ (pc = "raised" /\ executions > 0) => exc \notin {"Exception", "SystemExit"}
    /\ (pc = "exec_finally" /\ pending /= None) => Caught(pending)

\* C11: on every exit path of run_generated_code (inline success, inline
\* fault, a program that changed directory itself, isolated success and
\* failure, provisioning failure, a fault that propagates) the working
\* directory of the process when the call ends is the one it had when the
\* call began: outside the inline try block the process is always in the
\* directory it was launched in, so every call begins and ends there.
C11_CwdRestored ==
    pc /= "exec_finally" => cwd = LaunchDir

\* An inline run whose program changed directory and then asked to exit has
\* ended, by a propagating fault, with the working directory restored.
C11_Witness ==
    /\ pc = "raised"
    /\ exc = "SystemExit"
    /\ program_cwd = "program_dir"
    /\ cwd_before = LaunchDir
    /\ cwd = LaunchDir

\* The env tool of this call of run_generated_code exited non-zero.
ProvisioningFailed == create_returncode /= << >> /\ create_returncode /= << 0 >>

\* C12: when the env tool exits non-zero, run_generated_code returns
\* success = false with an error that quotes the tool's stderr and never
\* starts the entrypoint; the controller appends one record with
\* success = false for the attempt, and then requests a revision when an
\* attempt is left, and stops otherwise.
C12_ProvisioningFailureIsAFailedAttempt ==
    /\ [](pc = "exec_run" => create_returncode = << 0 >>)
    /\ []((ProvisioningFailed /\ pc \in {"record", "decide"}) =>
            /\ ~final_run_result.success
            /\ final_run_result.stderr = "create_stderr"
            /\ final_run_result.error =
                 ErrorWith("EnvironmentCreationFailed", final_run_result.stderr))
    /\ []((ProvisioningFailed /\ pc = "decide") =>
            /\ Len(attempts_meta) = attempt_idx + 1
            /\ ~Last(attempts_meta).success
            /\ Last(attempts_meta).error = final_run_result.error)
    /\ [][(ProvisioningFailed /\ pc = "exec_provision") => pc' = "record"]_vars
    /\ [][(ProvisioningFailed /\ pc = "record") =>
            Len(attempts_meta') = Len(attempts_meta) + 1]_vars
    /\ [][(ProvisioningFailed /\ pc = "decide") =>
            IF attempt_idx < total_attempts - 1
            THEN revisions' = revisions + 1
            ELSE revisions' = revisions /\ pc' = "stopped"]_vars

\* A provisioning failure in the first attempt was recorded and a revision
\* was requested; the next attempt is under way.
C12_Witness ==
    /\ ProvisioningFailed
    /\ pc = "loop"
    /\ attempt_idx = 1
    /\ revisions = 1
    /\ Len(attempts_meta) = 1
    /\ attempts_meta[1].error = ErrorWith("EnvironmentCreationFailed", "create_stderr")

\* C13: every call of run_generated_code terminates with a result: when the
\* provisioning or the entrypoint subprocess does not finish, the executor
\* stops waiting and returns, so the executor is never in a state it cannot
\* leave.
C13_ExecutorAlwaysReturns ==
    pc \in ExecutorPcs => ENABLED Next

\* C14: what a call of run_generated_code provisioned is released when the
\* call ends: no environment is at the prefix while the executor is not
\* running, so every attempt provisions into a prefix that holds none.
C14_EnvironmentReleased ==
    /\ pc \notin ExecutorPcs => ~env_at_prefix
    /\ pc = "exec_provision" => ~env_at_prefix

\* C15: two runs that execute at the same time in one process, each with a
\* work_dir of its own, do not interfere: while the program of a run
\* executes, the working directory is that run's work_dir; the stdout of a
\* run holds the output of that run only; and when both calls have returned
\* the working directory is the one the process had before either began.
C15_ConcurrentRunsIsolated ==
    /\ \A r \in Runs : run_pc[r] = "program" => process_cwd = WorkPath(r)
    /\ \A r \in Runs : stdout_buf[r] \subseteq {r}
    /\ (\A r \in Runs : run_pc[r] = "returned") => process_cwd = LaunchDir

\* The critic raised, the call of the model raised, or the answer is
\* malformed: not a mapping, or with an issues_by_file that is not a mapping
\* from file names to lists.
CriticFailed(answer) ==
    \/ answer.kind \in {"critic_raises", "llm_raises", "text"}
    \/ answer.kind = "object" /\ answer.shape /= "lists"

\* C16: the critic is fail-open: whenever it raises or its answer is
\* malformed, the controller does not raise and the attempt's verdict and
\* issues are those of an attempt whose critic said ok = true with no issues,
\* so that the executor is invoked when every other check passes.
C16_CriticFailOpen ==
    (pc = "validated" /\ CriticFailed(critic_answer)) =>
        LET open == Validation(project_plan, code_by_file, entrypoint_name,
                               CriticReply(FALSE, TRUE, NoIssues))
        IN /\ all_valid = open.valid
           /\ validation_issues_by_file = open.issues

\* The numerals that stand right after a marker of the line, blanks apart.
NumbersAfterMarker(line) ==
    { line[j] : j \in { k \in 1..Len(line) :
        /\ line[k] \in Numerals
        /\ \E i \in 1..(k - 1) :
             /\ line[i] = "Answer:"
             /\ \A b \in (i + 1)..(k - 1) : line[b] = "ws" } }

\* The lines of the parsed stdout and the position of the last one that
\* holds the marker.
MarkerLines == { i \in 1..Len(splitlines(parser_stdout)) :
                   HasMarker(splitlines(parser_stdout)[i]) }
LastMarkerLine ==
    splitlines(parser_stdout)[CHOOSE i \in MarkerLines : \A k \in MarkerLines : k <= i]

\* C17: parse_answer_from_stdout returns for every stdout, and classifies by
\* the last line that holds 'Answer:' only: without such a line the result is
\* parse_success = false, raw_line null and the no-line error; when that line
\* has no number right after a marker it is parse_success = false with the
\* other, numeric-parse error, whatever earlier lines hold; otherwise it is
\* parse_success = true with a number that follows a marker on that line; and
\* parse_success is true exactly when value is non-null and error is null.
C17_ParserClassifiesByLastMarkerLine ==
    parser_result /= << >> =>
        LET r == parser_result[1]
        IN /\ MarkerLines = {} =>
                (~r.parse_success /\ r.raw_line = << >> /\ r.error = "no_answer_line")
           /\ (MarkerLines /= {} /\ NumbersAfterMarker(LastMarkerLine) = {}) =>
                (~r.parse_success /\ r.error = "no_numeric_value")
           /\ (MarkerLines /= {} /\ NumbersAfterMarker(LastMarkerLine) /= {}) =>
                (r.parse_success /\
                 r.value \in { float(n) : n \in NumbersAfterMarker(LastMarkerLine) })
           /\ r.parse_success <=> (r.value /= None /\ r.error = None)

\* A stdout was parsed whose last marker line has no number while an earlier
\* marker line has one.
C17_Witness ==
    /\ parser_result /= << >>
    /\ parser_stdout = << "Answer:", "1", "nl", "Answer:", "txt" >>
    /\ ~parser_result[1].parse_success
    /\ parser_result[1].error = "no_numeric_value"

\* Some statement of the text imports the module.
Imports(text, mod) == \E i \in 1..Len(text) : mod \in text[i].imports

\* The module is the name of nothing in the text, though longer names may
\* contain it.
NeverNamed(text, mod) ==
    \A i \in 1..Len(Segments(Chunks(text))) : Segments(Chunks(text))[i] /= mod

IssueSet(v) == { v.issues[i] : i \in 1..Len(v.issues) }

\* C18: for every rule configuration and source text, validate_code returns
\* is_valid = false with an issue that names the module m whenever the text
\* imports the forbidden module m, at any position and in any form (alone,
\* dotted, from-import, one name of a multi-name import), and raises no
\* module issue for m when the text only holds names that contain m.
C18_ForbiddenImportsRejected ==
    verdict /= << >> =>
        \A m \in SeqToSet(rule_config.forbidden_modules) :
            /\ Imports(source_code, m) =>
                 (~verdict[1].is_valid /\ Issue("module", m) \in IssueSet(verdict[1]))
            /\ NeverNamed(source_code, m) =>
                 Issue("module", m) \notin IssueSet(verdict[1])

\* The rank of a check in the order module, call, fence, marker.
Rank(check) ==
    IF check = "module" THEN 1 ELSE IF check = "call" THEN 2
    ELSE IF check = "fence" THEN 3 ELSE 4

\* The text holds the marker 'Answer:' nowhere.
LacksMarker(text) == NeverNamed(text, "Answer:")

\* C19: for every source text without the answer marker, the empty text
\* included, validate_code with require_answer_print = true returns
\* is_valid = false with the marker issue as the last issue, and with
\* require_answer_print = false it raises no marker issue, whatever the flag
\* of the configuration; is_valid is true exactly when the issue list is
\* empty, and the issues come in the order module, call, fence, marker.
C19_MarkerRuleFollowsArgument ==
    verdict /= << >> =>
        LET v == verdict[1]
        IN /\ (LacksMarker(source_code) /\ answer_flag = << TRUE >>) =>
                /\ ~v.is_valid
                /\ v.issues /= << >>
                /\ v.issues[Len(v.issues)] = Issue("marker", "")
           /\ answer_flag = << FALSE >> => Issue("marker", "") \notin IssueSet(v)
           /\ v.is_valid <=> v.issues = << >>
           /\ \A i, j \in 1..Len(v.issues) :
                i < j => Rank(v.issues[i].check) <= Rank(v.issues[j].check)

\* A text without the marker and with a forbidden import, a forbidden call
\* and a code fence was validated with require_answer_print = true under a
\* configuration whose own flag is false: all four kinds of issue came back.
C19_Witness ==
    /\ verdict /= << >>
    /\ source_code = << ImportSysOs, CallRemove, Fence >>
    /\ answer_flag = << TRUE >>
    /\ ~rule_config.require_answer_print
    /\ Len(verdict[1].issues) = 4

\* The keys the data model gives a RunResult.
RunResultKeys == {"success", "stdout", "stderr", "error", "experiment_dir"}

\* C20: every result an attempt produces (isolated path, provisioning
\* failure, inline path, synthesized validation failure) carries success,
\* stdout, stderr, error and experiment_dir, with an empty stderr on the
\* inline path and the resolved work_dir as experiment_dir.
C20_ResultCarriesAllFields ==
    pc = "record" =>
        /\ RunResultKeys \subseteq DOMAIN final_run_result
        /\ program_cwd /= None => final_run_result.stderr = ""
        /\ final_run_result.experiment_dir = "work_path"

\* The named metrics of a plan, one after the other.
RECURSIVE NamedMetrics(_)
NamedMetrics(experiments) ==
    IF experiments = << >> THEN << >>
    ELSE SelectSeq(Head(experiments).metrics, LAMBDA m : m.name # << >>)
         \o NamedMetrics(Tail(experiments))

C22_EveryRunItsOwnDirectory ==
    \A r, s \in Runs :
        (r # s /\ paths[r] # << >> /\ paths[s] # << >>)
            => paths[r][1].root_dir # paths[s][1].root_dir

\* The verdicts of the checks of the attempt that has just been validated.
CriticOk == CriticVerdict(spec_critic(project_plan, critic_answer)).ok

StaticOk(f) == validate_code(Get(code_by_file, f.name), f.role = "entrypoint") = << >>

HelperUsageOk == ~HelperCheckFires(project_plan, code_by_file, entrypoint_name)

ArtifactsOk == ~MissingPlots(project_plan, code_by_file)

\* C23: in every attempt all_valid is the logical AND of the critic's ok, the
\* static verdict of every declared file, the helper-usage verdict and the
\* artifact-completeness verdict, whether or not issues_by_file is empty.
C23_AllValidIsTheConjunction ==
    pc = "validated" =>
        (all_valid <=>
            /\ CriticOk
            /\ \A f \in SeqToSet(project_plan.files) : StaticOk(f)
            /\ HelperUsageOk
            /\ ArtifactsOk)

\* An attempt is found invalid by the critic alone, which names no issue.
C23_Witness ==
    /\ pc = "validated"
    /\ ~all_valid
    /\ ~CriticOk
    /\ validation_issues_by_file = NoIssues

\* The issues an attempt's validation attached to a file.
IssuesFor(name) ==
    IF name \in DOMAIN validation_issues_by_file
    THEN SeqToSet(validation_issues_by_file[name]) ELSE {}

DefinedInHelpers ==
    { n \in SeqToSet(FunctionNames) :
        \E i \in 1..Len(fn_args.helper) :
            LET words == SelectSeq(fn_args.helper[i], LAMBDA w : w # " ")
            IN  Len(words) >= 3 /\ words[1] = "def" /\ words[2] = n /\ words[3] = "(" }

\* A line of the entrypoint that begins no definition holds a call site n(
\* of a name defined in the helper file.
CallsAHelper ==
    \E i \in 1..Len(fn_args.entry) :
        LET words == SelectSeq(fn_args.entry[i], LAMBDA w : w # " ")
        IN  /\ words[1] \notin {"def", "class"}
            /\ \E k \in 1..(Len(words) - 1) :
                   words[k] \in DefinedInHelpers /\ words[k + 1] = "("

HelperCheckShouldFire == DefinedInHelpers # {} /\ ~CallsAHelper

NameBefore(a, b) ==
    \E i, j \in 1..Len(FunctionNames) :
        i < j /\ FunctionNames[i] = a /\ FunctionNames[j] = b

RECURSIVE Flatten(_)
Flatten(lists) == IF lists = << >> THEN << >> ELSE Head(lists) \o Flatten(Tail(lists))

DeclaredPlots == Flatten(fn_args.plots)

\* A literal substring of the combined source.
IsSubstring(fn, text) ==
    \E i \in 1..(Len(text) + 1) :
        i + Len(fn) - 1 <= Len(text) /\ SubSeq(text, i, i + Len(fn) - 1) = fn

MissingFromSource ==
    { fn \in SeqToSet(DeclaredPlots) : fn # << >> /\ ~IsSubstring(fn, fn_args.code) }

FirstDeclared(fn) ==
    CHOOSE i \in 1..Len(DeclaredPlots) :
        DeclaredPlots[i] = fn /\ \A j \in 1..(i - 1) : DeclaredPlots[j] # fn

\* C26: the artifact-completeness check fires exactly when a declared plot
\* filename is no literal substring of the combined source; it then adds
\* exactly one issue, which lists every missing filename once, in
\* declaration order, to the entrypoint file, or to main.py when no
\* entrypoint is known, and all_valid is false; otherwise it adds nothing.
C26_ArtifactCheck ==
    fn_value # << >> =>
        LET out == fn_value[1]
            target == IF fn_args.entrypoint_name = << >> THEN "main.py"
                      ELSE fn_args.entrypoint_name[1]
        IN  IF MissingFromSource # {}
            THEN /\ ~out.all_valid
                 /\ DOMAIN out.issues_by_file = {target}
                 /\ Len(out.issues_by_file[target]) = 1
                 /\ LET names == out.issues_by_file[target][1].names
                    IN  /\ SeqToSet(names) = MissingFromSource
                        /\ \A i, j \in 1..Len(names) :
                               i < j => FirstDeclared(names[i]) < FirstDeclared(names[j])
            ELSE /\ out.all_valid
                 /\ out.issues_by_file = NoIssues

\* The check fires for a project with an entrypoint: b.png, declared before
\* a.png and once more after it, is missing, a.png occurs inside "da.png".
C26_Witness ==
    /\ fn_value # << >>
    /\ fn_args.plots = << << PlotB, PlotA >>, << PlotB >> >>
    /\ fn_args.entrypoint_name = <<"run.py">>
    /\ IsSubstring(PlotA, fn_args.code)
    /\ fn_value[1].issues_by_file = Extend(NoIssues, "run.py",
           << [check |-> "plots", names |-> << PlotB >>] >>)

Implementations == {"agent", "academy"}

\* C27: the academy orchestrator and solve_question_with_agent make the same
\* executor invocations for the same plan, configuration and collaborator
\* responses: whichever of the two is running, the invocation it makes has
\* the env tool and the isolation flag that either of them passes here.
C27_SameExecutorInvocations ==
    call_args # << >> =>
        \A impl \in Implementations :
            /\ call_args[1].env_tool = CallEnvToolOf(impl)
            /\ call_args[1].use_isolated_env = CallUseIsolatedEnvOf(impl)

\* The declared files that are not the env file, in declaration order.
SourceFiles == SelectSeq(project_plan.files, LAMBDA f : f.role # "env")

\* The texts code_by_file holds for them, one part per file.
DeclarationOrderCombination ==
    [i \in 1..Len(SourceFiles) |->
        [name |-> SourceFiles[i].name, code |-> Get(code_by_file, SourceFiles[i].name)]]

\* While the executor runs, it was given the combination of the texts that
\* code_by_file holds, and these are texts this attempt found valid.
ExecutesWhatWasValidated ==
    pc \in ExecutorPcs =>
        /\ call_args # << >>
        /\ call_args[1].code = DeclarationOrderCombination
        /\ all_valid
        /\ \A f \in SeqToSet(project_plan.files) : StaticOk(f)
        /\ HelperUsageOk
        /\ ArtifactsOk

\* code_by_file is left alone from the validation to the end of the executor
\* call; the executor is entered from a validated attempt only; and a step
\* that changes code_by_file, a revision, leads to the top of the loop, in a
\* later attempt.
ValidatedThenExecuted ==
    /\ pc \in ({"validated"} \cup ExecutorPcs) => code_by_file' = code_by_file
    /\ (pc' \in ExecutorPcs /\ pc \notin ExecutorPcs) => (pc = "validated" /\ all_valid)
    /\ (code_by_file' # code_by_file /\ pc # "start") =>
           (pc' = "loop" /\ attempt_idx' = attempt_idx + 1)

\* C28: in every attempt in which the executor is invoked, the source it
\* receives is the declaration-order combination, the env file skipped, of
\* the per-file sources that passed validation in that attempt; code_by_file
\* is not modified between validation and execution, and a revised entrypoint
\* is executed only after the validation of a later attempt.
C28_ExecutesTheValidatedSources ==
    []ExecutesWhatWasValidated /\ [][ValidatedThenExecuted]_vars

\* The executor runs on a revised entrypoint, in a project with an env file.
C28_Witness ==
    /\ pc \in ExecutorPcs
    /\ revisions > 0
    /\ "environment.yaml" \in DOMAIN code_by_file
    /\ Len(SourceFiles) < Len(project_plan.files)

\* C29: the execution mode follows the configuration: the executor is given
\* the configuration's use_isolated_env and env_tool, and an environment is
\* provisioned and a subprocess started only when use_isolated_env is set and
\* the manifest exists.
C29_ExecutionModeFollowsConfiguration ==
    /\ call_args # << >> =>
           /\ call_args[1].use_isolated_env = config_use_isolated_env
           /\ call_args[1].env_tool = config_env_tool
    /\ pc \in {"exec_provision", "exec_run", "exec_waiting"} =>
           (config_use_isolated_env /\ manifest_on_disk)

\* C30: in one inline run the body of main executes exactly once: never more
\* than once, and once when the top-level code has finished without fault
\* and main is a top-level callable, also when the source calls main under
\* the __name__ guard.
C30_MainRunsOnce ==
    /\ main_runs <= 1
    /\ (inline_pc = "done" /\ ~inline_traceback /\ callable(run_globals.main))
           => main_runs = 1

====
